---- MODULE Spec2Model ----
(***************************************************************************)
(* Volunteer/opportunity matching, ranking, allocation and impact scoring. *)
(*                                                                         *)
(* Two implementations live side by side in the repository and both are    *)
(* modelled: the modular agents (agent.py, matching_agent.py,              *)
(* impact_agent.py, agent.utils.py, config.py) and the single-file system  *)
(* (ai_agent_system.py).                                                   *)
(*                                                                         *)
(* Arithmetic: the Python code computes in binary floating point.  The     *)
(* model computes the same expressions exactly, as reduced fractions       *)
(* [num, den]; rounding error of IEEE doubles is not modelled.             *)
(***************************************************************************)
EXTENDS Integers, Sequences, FiniteSets, TLC

VARIABLES
    system,          \* which orchestrator class was constructed
    volunteers,      \* SocialGoodOrchestrator.volunteers
    opportunities,   \* SocialGoodOrchestrator.opportunities
    matches,         \* list returned by the last matcher call
    allocation,      \* plan returned by the last allocate_resources call
    last,            \* the last operation and its arguments
    pair,            \* (volunteer, opportunity) handed to the score calculation
    scored,          \* what the score calculation returned for pair
    candidates,      \* candidate list handed to allocate_resources
    completed_projects, \* ImpactAgent.completed_projects
    tracker,         \* ImpactTrackingAgent's counters
    completion,      \* record returned by the last record_completion
    locals,          \* local variables of the last _calculate_impact_score
    completed_opportunities, \* main.py ImpactTrackingAgent.completed_opportunities
    now,             \* the clock datetime.now() reads, in days
    report,          \* report returned by the step just taken, None if it returned none
    greedy,          \* main.py ResourceOptimizationAgent.allocate_resources in progress
    alerts,          \* volunteers the last emergency mobilization sent an alert to
    mobilized,       \* what the last emergency mobilization returned
    tasks,           \* the orchestrator coroutines on the event loop
    scoredPairs      \* (volunteer, opportunity) pairs the coroutines have scored

scoreVars == <<pair, scored>>
impactVars == <<completed_projects, tracker, completion, locals,
                completed_opportunities, now, report>>
orchVars == <<system, volunteers, opportunities, matches, last>>
greedyVars == <<greedy>>
crisisVars == <<alerts, mobilized>>
asyncVars == <<tasks, scoredPairs>>
restVars == <<greedyVars, crisisVars, asyncVars>>

vars == <<system, volunteers, opportunities, matches, allocation, last,
          pair, scored, candidates, completed_projects, tracker, completion, locals,
          completed_opportunities, now, report,
          greedy, alerts, mobilized, tasks, scoredPairs>>

-----------------------------------------------------------------------------
(* Bounds of the model *)

MaxVolunteers == 2
MaxOpportunities == 6
MaxCandidates == 3

-----------------------------------------------------------------------------
(* Exact arithmetic on non-negative fractions *)

RECURSIVE GCD(_, _)
GCD(a, b) == IF b = 0 THEN a ELSE GCD(b, a % b)

Rat(n, d) == LET g == GCD(n, d) IN [num |-> n \div g, den |-> d \div g]

Zero == Rat(0, 1)
One == Rat(1, 1)

RAdd(a, b) == Rat(a.num * b.den + b.num * a.den, a.den * b.den)
RMul(a, b) == Rat(a.num * b.num, a.den * b.den)
RDiv(a, b) == Rat(a.num * b.den, a.den * b.num)
RLe(a, b) == a.num * b.den <= b.num * a.den
RLt(a, b) == a.num * b.den < b.num * a.den
RGe(a, b) == RLe(b, a)
RGt(a, b) == RLt(b, a)
RMin(a, b) == IF RLe(a, b) THEN a ELSE b

-----------------------------------------------------------------------------
(* Python values: dict lookup with a default, enum members *)

\* d.get(k, default)
DictGet(d, k, default) == IF k \in DOMAIN d THEN d[k] ELSE default

\* A str object used as a dict key
Str(s) == [cls |-> "str", id |-> s]

\* Members of the (plain, non-str) Enum classes
ImpactAreaNames ==
    {"EDUCATION", "HEALTHCARE", "ENVIRONMENT", "POVERTY", "EQUALITY", "DISASTER_RELIEF"}
ImpactArea(n) == [cls |-> "ImpactArea", id |-> n]
ImpactAreaValue ==
    ("EDUCATION" :> "education") @@ ("HEALTHCARE" :> "healthcare")
    @@ ("ENVIRONMENT" :> "environment") @@ ("POVERTY" :> "poverty")
    @@ ("EQUALITY" :> "equality") @@ ("DISASTER_RELIEF" :> "disaster_relief")

UrgencyLevelNames == {"LOW", "MEDIUM", "HIGH", "CRITICAL"}
UrgencyLevel(n) == [cls |-> "UrgencyLevel", id |-> n]
UrgencyValue == ("LOW" :> 1) @@ ("MEDIUM" :> 2) @@ ("HIGH" :> 3) @@ ("CRITICAL" :> 4)

-----------------------------------------------------------------------------
(* Configuration *)

MATCHING_WEIGHTS ==
    ("skills" :> Rat(40, 100)) @@ ("location" :> Rat(20, 100))
    @@ ("interests" :> Rat(15, 100)) @@ ("urgency" :> Rat(10, 100))
    @@ ("experience" :> Rat(10, 100)) @@ ("availability" :> Rat(5, 100))

\* keyed by str
IMPACT_MULTIPLIERS ==
    (Str("disaster_relief") :> Rat(20, 10)) @@ (Str("healthcare") :> Rat(15, 10))
    @@ (Str("education") :> Rat(13, 10)) @@ (Str("poverty") :> Rat(14, 10))
    @@ (Str("environment") :> Rat(12, 10)) @@ (Str("equality") :> Rat(13, 10))

MAX_RECOMMENDATIONS == 5
MIN_MATCH_SCORE == Rat(3, 10)

\* SmartMatchingAgent.skill_weights
SmartSkillWeights ==
    ("technical" :> Rat(12, 10)) @@ ("medical" :> Rat(13, 10))
    @@ ("teaching" :> Rat(11, 10)) @@ ("construction" :> Rat(11, 10))
    @@ ("leadership" :> Rat(12, 10)) @@ ("language" :> Rat(11, 10))

\* ResourceOptimizationAgent.impact_multipliers, keyed by enum member
OptimizerImpactMultipliers ==
    (ImpactArea("DISASTER_RELIEF") :> Rat(20, 10)) @@ (ImpactArea("HEALTHCARE") :> Rat(15, 10))
    @@ (ImpactArea("EDUCATION") :> Rat(13, 10)) @@ (ImpactArea("POVERTY") :> Rat(14, 10))
    @@ (ImpactArea("ENVIRONMENT") :> Rat(12, 10)) @@ (ImpactArea("EQUALITY") :> Rat(13, 10))

-----------------------------------------------------------------------------
(* Score calculation *)

\* sum(weights.get(skill, 1.0) for skill in <list>)
RECURSIVE SumWeightsSeq(_, _)
SumWeightsSeq(weights, skills) ==
    IF skills = <<>> THEN Zero
    ELSE RAdd(DictGet(weights, Head(skills), One), SumWeightsSeq(weights, Tail(skills)))

\* sum(weights.get(skill, 1.0) for skill in <set>)
RECURSIVE SumWeightsSet(_, _)
SumWeightsSet(weights, skills) ==
    IF skills = {} THEN Zero
    ELSE LET s == CHOOSE x \in skills : TRUE
         IN RAdd(DictGet(weights, s, One), SumWeightsSet(weights, skills \ {s}))

SeqToSet(s) == {s[i] : i \in DOMAIN s}

\* _calculate_skill_match counting skills, every weight taken as 1
calculate_skill_match_unweighted(weights, volunteer_skills, required_skills) ==
    IF required_skills = <<>> THEN Rat(5, 10)
    ELSE LET matched_skills == volunteer_skills \cap SeqToSet(required_skills)
         IN Rat(Cardinality(matched_skills), Len(required_skills))

\* _calculate_skill_match dividing by the weight of the volunteer's skills instead
\* of the required ones
calculate_skill_match_by_volunteer(weights, volunteer_skills, required_skills) ==
    IF required_skills = <<>> THEN Rat(5, 10)
    ELSE LET matched_skills == volunteer_skills \cap SeqToSet(required_skills)
         IN IF matched_skills = {} THEN Zero
            ELSE RDiv(SumWeightsSet(weights, matched_skills),
                      SumWeightsSet(weights, volunteer_skills))

\* _calculate_skill_match of both matchers; weights is self.skill_weights
calculate_skill_match(weights, volunteer_skills, required_skills) ==
    IF required_skills = <<>> THEN Rat(5, 10)
    ELSE LET matched_skills == volunteer_skills \cap SeqToSet(required_skills)
         IN IF matched_skills = {} THEN Zero
            ELSE LET total_weight == SumWeightsSet(weights, matched_skills)
                     max_possible == SumWeightsSeq(weights, required_skills)
                 IN RDiv(total_weight, max_possible)

\* an experience tag outside the table scored 0 instead of the neutral 0.5
calculate_experience_score_unknown_zero(experience_level) ==
    LET levels == ("beginner" :> Rat(3, 10)) @@ ("intermediate" :> Rat(7, 10))
                  @@ ("expert" :> One)
    IN DictGet(levels, experience_level, Zero)

calculate_experience_score(experience_level) ==
    LET levels == ("beginner" :> Rat(3, 10)) @@ ("intermediate" :> Rat(7, 10))
                  @@ ("expert" :> One)
    IN DictGet(levels, experience_level, Rat(5, 10))

\* an available volunteer given the full availability score
calculate_availability_match_full(availability) ==
    IF \E k \in DOMAIN availability : availability[k] THEN One ELSE Rat(2, 10)

\* availability is a dict slot -> bool; any(availability.values())
calculate_availability_match(availability) ==
    IF \E k \in DOMAIN availability : availability[k] THEN Rat(8, 10) ELSE Rat(2, 10)

\* the urgency score added without the min(..., weight)
urgency_bonus_uncapped(w, opportunity) ==
    RMul(Rat(UrgencyValue[opportunity.urgency.id], 1), Rat(25, 100))

\* the urgency score weighted like the other factors: urgency_score * weight
urgency_bonus_scaled(w, opportunity) ==
    RMul(RMul(Rat(UrgencyValue[opportunity.urgency.id], 1), Rat(25, 100)), w["urgency"])

\* urgency_score = opportunity.urgency.value * 0.25; min(urgency_score, weight)
urgency_bonus(w, opportunity) ==
    LET urgency_score == RMul(Rat(UrgencyValue[opportunity.urgency.id], 1), Rat(25, 100))
    IN RMin(urgency_score, w["urgency"])

\* the optimism multiplier without the cap
confidence_uncapped(normalized_score) == RMul(normalized_score, Rat(12, 10))

\* confidence = min(normalized_score * 1.2, 1.0)
confidence_of(normalized_score) == RMin(RMul(normalized_score, Rat(12, 10)), One)

\* The six weighted steps shared by _calculate_compatibility and _calculate_match.
\* w: the six factor weights; sw: the per-skill weight table; interests_text: the
\* reasoning string for an interest match.  Yields the returned tuple (score,
\* reasoning, confidence) and, as locals, the sub-scores computed on the way.
WeightedScore(w, sw, interests_text, volunteer, opportunity) ==
    LET skill_score == calculate_skill_match(sw, volunteer.skills, opportunity.required_skills)
        score1 == RAdd(Zero, RMul(skill_score, w["skills"]))
        max1 == RAdd(Zero, w["skills"])
        r1 == IF RGt(skill_score, Rat(6, 10)) THEN <<"Strong skill alignment">> ELSE <<>>
        location_score == IF volunteer.location = opportunity.location THEN One ELSE Rat(3, 10)
        score2 == RAdd(score1, RMul(location_score, w["location"]))
        max2 == RAdd(max1, w["location"])
        r2 == IF location_score = One THEN Append(r1, "Perfect location match") ELSE r1
        interest_score == IF opportunity.impact_area \in volunteer.interests
                          THEN One ELSE Rat(2, 10)
        score3 == RAdd(score2, RMul(interest_score, w["interests"]))
        max3 == RAdd(max2, w["interests"])
        r3 == IF interest_score = One THEN Append(r2, interests_text) ELSE r2
        score4 == RAdd(score3, urgency_bonus(w, opportunity))
        max4 == RAdd(max3, w["urgency"])
        r4 == IF UrgencyValue[opportunity.urgency.id] >= 3
              THEN Append(r3, "High urgency need") ELSE r3
        exp_score == calculate_experience_score(volunteer.experience_level)
        score5 == RAdd(score4, RMul(exp_score, w["experience"]))
        max5 == RAdd(max4, w["experience"])
        avail_score == calculate_availability_match(volunteer.availability)
        score6 == RAdd(score5, RMul(avail_score, w["availability"]))
        max6 == RAdd(max5, w["availability"])
        normalized_score == IF RGt(max6, Zero) THEN RDiv(score6, max6) ELSE Zero
        confidence == confidence_of(normalized_score)
    IN [score |-> normalized_score, reasoning |-> r4, confidence |-> confidence,
        locals |-> [skill_score |-> skill_score, location_score |-> location_score,
                    interest_score |-> interest_score,
                    urgency_bonus |-> urgency_bonus(w, opportunity),
                    exp_score |-> exp_score, avail_score |-> avail_score]]

\* _calculate_compatibility with the urgency reasoning appended from MEDIUM up
calculate_compatibility_urgent_from_medium(volunteer, opportunity) ==
    LET c == WeightedScore(MATCHING_WEIGHTS, MATCHING_WEIGHTS, "Matches interests",
                           volunteer, opportunity)
    IN IF UrgencyValue[opportunity.urgency.id] = 2
       THEN [c EXCEPT !.reasoning = Append(@, "High urgency need")]
       ELSE c

\* MatchingAgent._calculate_compatibility: self.skill_weights is MATCHING_WEIGHTS,
\* used both for the six factors and for the per-skill lookup
calculate_compatibility(volunteer, opportunity) ==
    WeightedScore(MATCHING_WEIGHTS, MATCHING_WEIGHTS, "Matches interests",
                  volunteer, opportunity)

\* SmartMatchingAgent._calculate_match: literal factor weights, own skill table
calculate_match(volunteer, opportunity) ==
    WeightedScore(MATCHING_WEIGHTS, SmartSkillWeights, "Matches volunteer interests",
                  volunteer, opportunity)

-----------------------------------------------------------------------------
(* Ranking *)

MatchResult(volunteer, opportunity, c) ==
    [volunteer |-> volunteer, opportunity |-> opportunity, match_score |-> c.score,
     reasoning |-> c.reasoning, confidence |-> c.confidence]

\* Python's list.sort / sorted with key=match_score, reverse=True: a stable sort,
\* elements with equal keys keep their original relative order.
RECURSIVE InsertByScore(_, _)
InsertByScore(m, s) ==
    IF s = <<>> THEN <<m>>
    ELSE IF RGe(Head(s).match_score, m.match_score)
         THEN <<Head(s)>> \o InsertByScore(m, Tail(s))
         ELSE <<m>> \o s

RECURSIVE SortByScoreDesc(_)
SortByScoreDesc(ms) ==
    IF ms = <<>> THEN <<>>
    ELSE InsertByScore(ms[Len(ms)], SortByScoreDesc(SubSeq(ms, 1, Len(ms) - 1)))

\* Python's s[:n]
Slice(s, n) ==
    IF n >= 0 THEN SubSeq(s, 1, IF n < Len(s) THEN n ELSE Len(s))
    ELSE SubSeq(s, 1, IF Len(s) + n > 0 THEN Len(s) + n ELSE 0)

\* find_matches with the sort's reverse=True dropped
find_matches_ascending(volunteer, opps) ==
    LET all == [i \in 1..Len(opps) |->
                    MatchResult(volunteer, opps[i], calculate_compatibility(volunteer, opps[i]))]
        Keep(m) == RGe(m.match_score, MIN_MATCH_SCORE)
        Rev(q) == [i \in 1..Len(q) |-> q[Len(q) + 1 - i]]
    IN Slice(Rev(SortByScoreDesc(SelectSeq(all, Keep))), MAX_RECOMMENDATIONS)

\* MatchingAgent.find_matches
find_matches(volunteer, opps) ==
    LET all == [i \in 1..Len(opps) |->
                    MatchResult(volunteer, opps[i], calculate_compatibility(volunteer, opps[i]))]
        Keep(m) == RGe(m.match_score, MIN_MATCH_SCORE)
    IN Slice(SortByScoreDesc(SelectSeq(all, Keep)), MAX_RECOMMENDATIONS)

\* find_volunteers with a sort that does not keep ties in input order
find_volunteers_unstable(opportunity, vols) ==
    LET all == [i \in 1..Len(vols) |->
                    MatchResult(vols[i], opportunity, calculate_compatibility(vols[i], opportunity))]
        Keep(m) == RGe(m.match_score, RAdd(MIN_MATCH_SCORE, Rat(1, 10)))
        Rev(q) == [i \in 1..Len(q) |-> q[Len(q) + 1 - i]]
    IN Slice(SortByScoreDesc(Rev(SelectSeq(all, Keep))), opportunity.volunteers_needed)

\* MatchingAgent.find_volunteers
find_volunteers(opportunity, vols) ==
    LET all == [i \in 1..Len(vols) |->
                    MatchResult(vols[i], opportunity, calculate_compatibility(vols[i], opportunity))]
        Keep(m) == RGe(m.match_score, RAdd(MIN_MATCH_SCORE, Rat(1, 10)))
    IN Slice(SortByScoreDesc(SelectSeq(all, Keep)), opportunity.volunteers_needed)

\* SmartMatchingAgent.find_best_matches
find_best_matches(volunteer, opps) ==
    LET all == [i \in 1..Len(opps) |->
                    MatchResult(volunteer, opps[i], calculate_match(volunteer, opps[i]))]
        Keep(m) == RGt(m.match_score, Rat(3, 10))
    IN Slice(SortByScoreDesc(SelectSeq(all, Keep)), 5)

\* SmartMatchingAgent.find_volunteers_for_opportunity
find_volunteers_for_opportunity(opportunity, vols) ==
    LET all == [i \in 1..Len(vols) |->
                    MatchResult(vols[i], opportunity, calculate_match(vols[i], opportunity))]
        Keep(m) == RGt(m.match_score, Rat(4, 10))
    IN SortByScoreDesc(SelectSeq(all, Keep))

-----------------------------------------------------------------------------
(* Allocation *)

\* ResourceOptimizationAgent._assign_role: the first required skill the volunteer
\* has, else "general volunteer"
RECURSIVE assign_role(_, _)
assign_role(volunteer_skills, required_skills) ==
    IF required_skills = <<>> THEN "general volunteer"
    ELSE IF Head(required_skills) \in volunteer_skills THEN Head(required_skills)
         ELSE assign_role(volunteer_skills, Tail(required_skills))

RECURSIVE SumScores(_)
SumScores(ms) ==
    IF ms = <<>> THEN Zero ELSE RAdd(Head(ms).match_score, SumScores(Tail(ms)))

\* What an operation yields when a division by zero is raised in it
ZeroDivisionError == [raised |-> "ZeroDivisionError"]

\* _calculate_expected_impact with the `if volunteers else 0` guard left out
calculate_expected_impact_unguarded(opportunity, vols) ==
    LET base_impact == RMul(Rat(UrgencyValue[opportunity.urgency.id], 1), Rat(25, 100))
        area_multiplier == DictGet(OptimizerImpactMultipliers, opportunity.impact_area, One)
    IN IF vols = <<>> THEN ZeroDivisionError
       ELSE RMul(RMul(base_impact, RDiv(SumScores(vols), Rat(Len(vols), 1))),
                 area_multiplier)

\* _calculate_expected_impact with the sum of the scores in place of their mean
calculate_expected_impact_sum(opportunity, vols) ==
    LET base_impact == RMul(Rat(UrgencyValue[opportunity.urgency.id], 1), Rat(25, 100))
        skill_multiplier == IF vols # <<>> THEN SumScores(vols) ELSE Zero
        area_multiplier == DictGet(OptimizerImpactMultipliers, opportunity.impact_area, One)
    IN RMul(RMul(base_impact, skill_multiplier), area_multiplier)

\* ResourceOptimizationAgent._calculate_expected_impact
calculate_expected_impact(opportunity, vols) ==
    LET base_impact == RMul(Rat(UrgencyValue[opportunity.urgency.id], 1), Rat(25, 100))
        skill_multiplier == IF vols # <<>>
                            THEN RDiv(SumScores(vols), Rat(Len(vols), 1)) ELSE Zero
        area_multiplier == DictGet(OptimizerImpactMultipliers, opportunity.impact_area, One)
    IN RMul(RMul(base_impact, skill_multiplier), area_multiplier)

\* ResourceOptimizationAgent._calculate_efficiency: expected impact per assigned volunteer
calculate_efficiency(opportunity, vols) ==
    IF vols = <<>> THEN Zero
    ELSE RDiv(calculate_expected_impact(opportunity, vols), Rat(Len(vols), 1))

\* the first volunteers_needed candidates as given, without sorting them
select_volunteers_unsorted(opportunity, vols) ==
    Slice(vols, opportunity.volunteers_needed)

\* sorted(volunteers, key=match_score, reverse=True)[:opportunity.volunteers_needed]
select_volunteers(opportunity, vols) ==
    Slice(SortByScoreDesc(vols), opportunity.volunteers_needed)

\* ResourceOptimizationAgent.allocate_resources
allocate_resources(opportunity, vols) ==
    LET sorted_volunteers == select_volunteers(opportunity, vols)
    IN [assigned_volunteers |->
            [i \in 1..Len(sorted_volunteers) |->
                [volunteer_id |-> sorted_volunteers[i].volunteer.id,
                 match_score |-> sorted_volunteers[i].match_score,
                 role |-> assign_role(sorted_volunteers[i].volunteer.skills,
                                      opportunity.required_skills)]],
        expected_impact |-> calculate_expected_impact(opportunity, sorted_volunteers),
        efficiency_score |-> calculate_efficiency(opportunity, sorted_volunteers)]

-----------------------------------------------------------------------------
(* Records supplied by the callers *)

NoSlots == [k \in {} |-> TRUE]
AllBusy == ("weekdays" :> FALSE) @@ ("weekends" :> FALSE)
Weekends == ("weekdays" :> FALSE) @@ ("weekends" :> TRUE)

Volunteer(id, skills, location, availability, interests, experience_level) ==
    [id |-> id, skills |-> skills, location |-> location, availability |-> availability,
     interests |-> interests, experience_level |-> experience_level]

Opportunity(id, required_skills, location, impact_area, urgency, volunteers_needed) ==
    [id |-> id, required_skills |-> required_skills, location |-> location,
     impact_area |-> impact_area, urgency |-> urgency,
     volunteers_needed |-> volunteers_needed]

\* Registration data the orchestrator is driven with (id 0: assigned on registration)
VolunteerData ==
    { Volunteer(0, {"medical", "leadership"}, "Metro City", Weekends,
                {ImpactArea("HEALTHCARE"), ImpactArea("DISASTER_RELIEF")}, "expert"),
      Volunteer(0, {"cooking"}, "Suburb Town", Weekends,
                {ImpactArea("ENVIRONMENT")}, "beginner"),
      Volunteer(0, {"cooking"}, "Metro City", Weekends,
                {ImpactArea("ENVIRONMENT")}, "intermediate") }

OpportunityData ==
    { Opportunity(0, <<"medical", "patient_care">>, "Metro City",
                  ImpactArea("HEALTHCARE"), UrgencyLevel("HIGH"), 1),
      Opportunity(0, <<"teaching">>, "Suburb Town",
                  ImpactArea("EDUCATION"), UrgencyLevel("MEDIUM"), 2) }

NoAllocation ==
    [assigned_volunteers |-> <<>>, expected_impact |-> Zero, efficiency_score |-> Zero]

None == [none |-> TRUE]

-----------------------------------------------------------------------------
(* The orchestrators *)

IdleScore == pair = None /\ scored = None
IdleAllocate == candidates = <<>>
NoTracker == [projects_completed |-> 0, total_impact_score |-> Zero,
              volunteer_hours_logged |-> Zero]
IdleGreedy == greedy = None
IdleCrisis == alerts = <<>> /\ mobilized = None
IdleAsync == tasks = <<>> /\ scoredPairs = {}
IdleRest == IdleGreedy /\ IdleCrisis /\ IdleAsync

IdleImpact ==
    /\ completed_projects = <<>> /\ tracker = NoTracker /\ completion = None
    /\ locals = None /\ completed_opportunities = <<>> /\ now = 0 /\ report = None

Init ==
    /\ system \in {"agent", "ai_agent_system"}
    /\ volunteers = <<>>
    /\ opportunities = <<>>
    /\ matches = <<>>
    /\ allocation = NoAllocation
    /\ last = "init"
    /\ IdleScore /\ IdleAllocate /\ IdleImpact /\ IdleRest

\* agent.py SocialGoodOrchestrator.register_volunteer, called with registration
\* data of the set given
register_volunteer_on(volunteer_data) ==
    /\ system = "agent"
    /\ Len(volunteers) < MaxVolunteers
    /\ \E data \in volunteer_data :
        LET volunteer == [data EXCEPT !.id = Len(volunteers) + 1]
        IN /\ volunteers' = Append(volunteers, volunteer)
           /\ matches' = find_matches(volunteer, opportunities)
    /\ last' = "register_volunteer"
    /\ UNCHANGED <<system, opportunities, allocation, candidates, scoreVars, restVars, impactVars>>

register_volunteer == register_volunteer_on(VolunteerData)

\* agent.py SocialGoodOrchestrator.create_opportunity.  self.optimizer is an
\* OptimizationAgent, whose allocate_resources(opportunity, suitable_volunteers) is
\* modelled by the one allocate_resources of that signature in the repository.
create_opportunity ==
    /\ system = "agent"
    /\ Len(opportunities) < MaxOpportunities
    /\ \E data \in OpportunityData :
        LET opportunity == [data EXCEPT !.id = Len(opportunities) + 1]
            suitable_volunteers == find_volunteers(opportunity, volunteers)
        IN /\ opportunities' = Append(opportunities, opportunity)
           /\ matches' = suitable_volunteers
           /\ allocation' = allocate_resources(opportunity, suitable_volunteers)
    /\ last' = "create_opportunity"
    /\ UNCHANGED <<system, volunteers, candidates, scoreVars, restVars, impactVars>>

\* ai_agent_system.py SocialGoodOrchestrator.add_volunteer
add_volunteer ==
    /\ system = "ai_agent_system"
    /\ Len(volunteers) < MaxVolunteers
    /\ \E data \in VolunteerData :
        LET volunteer == [data EXCEPT !.id = Len(volunteers) + 1]
        IN /\ volunteers' = Append(volunteers, volunteer)
           /\ matches' = find_best_matches(volunteer, opportunities)
    /\ last' = "add_volunteer"
    /\ UNCHANGED <<system, opportunities, allocation, candidates, scoreVars, restVars, impactVars>>

\* ai_agent_system.py SocialGoodOrchestrator.add_opportunity
add_opportunity ==
    /\ system = "ai_agent_system"
    /\ Len(opportunities) < MaxOpportunities
    /\ \E data \in OpportunityData :
        LET opportunity == [data EXCEPT !.id = Len(opportunities) + 1]
            suitable_volunteers == find_volunteers_for_opportunity(opportunity, volunteers)
        IN /\ opportunities' = Append(opportunities, opportunity)
           /\ matches' = suitable_volunteers
           /\ allocation' = allocate_resources(opportunity, suitable_volunteers)
    /\ last' = "add_opportunity"
    /\ UNCHANGED <<system, volunteers, candidates, scoreVars, restVars, impactVars>>

Next == register_volunteer \/ create_opportunity \/ add_volunteer \/ add_opportunity

Spec == Init /\ [][Next]_vars

-----------------------------------------------------------------------------
(* The score calculation on its own: every pair of a bounded input space *)

MaxRequired == 2

ScoreSkillTags == {"medical", "location"}
RequiredSkillLists == UNION {[1..n -> ScoreSkillTags] : n \in 0..MaxRequired}

ScoreVolunteers ==
    { Volunteer(1, sk, loc, av, int, exp) :
        sk \in SUBSET ScoreSkillTags,
        loc \in {"Metro City", "metro city", "Suburb Town"},
        av \in {NoSlots, AllBusy, Weekends},
        int \in {{}, {ImpactArea("HEALTHCARE"), ImpactArea("EQUALITY")}},
        exp \in {"beginner", "intermediate", "expert", "veteran"} }

ScoreOpportunities ==
    { Opportunity(1, req, "Metro City", ImpactArea("HEALTHCARE"), UrgencyLevel(u), 1) :
        req \in RequiredSkillLists, u \in UrgencyLevelNames }

IdleOrchestrator ==
    /\ system = "none" /\ volunteers = <<>> /\ opportunities = <<>>
    /\ matches = <<>> /\ allocation = NoAllocation /\ last = "init"

\* A healthcare volunteer and a healthcare opportunity as the callers register them
ExamplePair ==
    [volunteer |-> Volunteer(1, {"medical", "leadership"}, "Metro City", Weekends,
                             {ImpactArea("HEALTHCARE"), ImpactArea("DISASTER_RELIEF")},
                             "expert"),
     opportunity |-> Opportunity(1, <<"medical", "patient_care">>, "Metro City",
                                 ImpactArea("HEALTHCARE"), UrgencyLevel("HIGH"), 1)]

InitScore ==
    /\ pair \in [volunteer : ScoreVolunteers, opportunity : ScoreOpportunities]
                 \cup {ExamplePair}
    /\ scored = None
    /\ IdleOrchestrator /\ IdleAllocate /\ IdleImpact /\ IdleRest

\* MatchingAgent._calculate_compatibility(volunteer, opportunity)
score_compatibility ==
    /\ scored = None
    /\ scored' = [agent |-> "MatchingAgent",
                  result |-> calculate_compatibility(pair.volunteer, pair.opportunity)]
    /\ UNCHANGED <<orchVars, allocation, candidates, pair, impactVars, restVars>>

\* SmartMatchingAgent._calculate_match(volunteer, opportunity)
score_match ==
    /\ scored = None
    /\ scored' = [agent |-> "SmartMatchingAgent",
                  result |-> calculate_match(pair.volunteer, pair.opportunity)]
    /\ UNCHANGED <<orchVars, allocation, candidates, pair, impactVars, restVars>>

NextScore == score_compatibility \/ score_match

SpecScore == InitScore /\ [][NextScore]_vars

InUnit(r) == r.den > 0 /\ r.num >= 0 /\ r.num <= r.den

\* C1: for every volunteer/opportunity pair the match score and the confidence
\* returned by the compatibility calculation both lie in [0,1].
C1_ScoreAndConfidenceInUnit ==
    scored # None => InUnit(scored.result.score) /\ InUnit(scored.result.confidence)

\* A pair was scored, the 1.2 multiplier took the confidence to the cap and the
\* score itself is below 1.
C1_Witness ==
    /\ scored # None
    /\ scored.result.confidence = One
    /\ RLt(scored.result.score, One)
    /\ pair.opportunity.urgency = UrgencyLevel("CRITICAL")

\* The per-skill weight table the agent that scored the pair holds as skill_weights
SkillTable ==
    IF scored.agent = "MatchingAgent" THEN MATCHING_WEIGHTS ELSE SmartSkillWeights

\* Sum of the table weights (1.0 for a tag not in it) of the first n required
\* skills; with matchedOnly, of those among them the volunteer has, each tag once
RECURSIVE RequiredWeight(_, _, _, _, _)
RequiredWeight(table, skills, required, n, matchedOnly) ==
    IF n = 0 THEN Zero
    ELSE LET tag == required[n]
             weight == IF tag \in DOMAIN table THEN table[tag] ELSE One
             counted == \/ ~matchedOnly
                        \/ (tag \in skills /\ \A j \in 1..(n - 1) : required[j] # tag)
         IN RAdd(RequiredWeight(table, skills, required, n - 1, matchedOnly),
                 IF counted THEN weight ELSE Zero)

\* C17: the skill sub-score is 0.5 when the required-skill list is empty, 0.0 when
\* it is non-empty and shares no skill with the volunteer, and otherwise (sum of
\* per-skill weights over the matched skills) / (sum of per-skill weights over the
\* required skills), a skill absent from the weight table weighing 1.0; with no
\* skill in the table this is |matched| / |required|.
C17_SkillSubScore ==
    scored # None =>
        LET skills == pair.volunteer.skills
            required == pair.opportunity.required_skills
            matched == skills \cap SeqToSet(required)
            sub == scored.result.locals.skill_score
        IN /\ required = <<>> => sub = Rat(5, 10)
           /\ (required # <<>> /\ matched = {}) => sub = Zero
           /\ (required # <<>> /\ matched # {}) =>
                sub = RDiv(RequiredWeight(SkillTable, skills, required, Len(required), TRUE),
                           RequiredWeight(SkillTable, skills, required, Len(required), FALSE))
           /\ (required # <<>> /\ SeqToSet(required) \cap DOMAIN SkillTable = {}) =>
                sub = Rat(Cardinality(matched), Len(required))

\* Two required skills, the volunteer has the one whose tag is in the weight
\* table: the sub-score is neither the count ratio 1/2 nor 0 or 1
C17_Witness ==
    /\ scored # None
    /\ Len(pair.opportunity.required_skills) = 2
    /\ Cardinality(pair.volunteer.skills \cap SeqToSet(pair.opportunity.required_skills)) = 1
    /\ RGt(scored.result.locals.skill_score, Zero)
    /\ RLt(scored.result.locals.skill_score, Rat(1, 2))

\* The outcome of scoring the pair's volunteer, given the skills S, by the agent
\* that scored the pair
Rescored(S) ==
    LET volunteer == [pair.volunteer EXCEPT !.skills = S]
    IN IF scored.agent = "MatchingAgent"
       THEN calculate_compatibility(volunteer, pair.opportunity)
       ELSE calculate_match(volunteer, pair.opportunity)

\* C18: with the opportunity's required skills fixed and non-empty, adding skills
\* to a volunteer's skill set never decreases the skill sub-score, nor the match
\* score when all other fields are unchanged.
C18_SkillMonotone ==
    (scored # None /\ pair.opportunity.required_skills # <<>>) =>
        \A S \in SUBSET (ScoreSkillTags \cup {"cooking"}) :
            pair.volunteer.skills \subseteq S =>
                /\ RGe(Rescored(S).locals.skill_score, scored.result.locals.skill_score)
                /\ RGe(Rescored(S).score, scored.result.score)

\* A volunteer with one of two required skills was scored; a skill the
\* opportunity does not ask for leaves the sub-score as it is and the second
\* required skill raises it
C18_Witness ==
    /\ scored # None
    /\ pair.opportunity.required_skills = <<"medical", "location">>
    /\ pair.volunteer.skills = {"medical"}
    /\ Rescored({"medical", "cooking"}).locals.skill_score
            = scored.result.locals.skill_score
    /\ RGt(Rescored({"medical", "location"}).locals.skill_score,
           scored.result.locals.skill_score)

\* str.lower() of the location tags in use
LowerCase ==
    ("Metro City" :> "metro city") @@ ("metro city" :> "metro city")
    @@ ("Suburb Town" :> "suburb town")

\* C19: the location sub-score is 1.0 whenever the volunteer's and the
\* opportunity's location tags are equal ignoring letter case ("Metro City" vs
\* "metro city"), and 0.3 otherwise.
C19_LocationCaseInsensitive ==
    scored # None =>
        scored.result.locals.location_score =
            (IF LowerCase[pair.volunteer.location] = LowerCase[pair.opportunity.location]
             THEN One ELSE Rat(3, 10))

\* What both calculators do: 1.0 for identical tags, 0.3 otherwise
C19_LocationExactMatch ==
    scored # None =>
        scored.result.locals.location_score =
            (IF pair.volunteer.location = pair.opportunity.location
             THEN One ELSE Rat(3, 10))

\* C20: the urgency contribution added to the weighted sum is
\* min(urgency ordinal x 0.25, 0.10) for every urgency level, so it never exceeds
\* the urgency weight 0.10.
C20_UrgencyBonusCapped ==
    scored # None =>
        LET ordinal == UrgencyValue[pair.opportunity.urgency.id]
            bonus == scored.result.locals.urgency_bonus
        IN /\ bonus = (IF ordinal * 25 <= 10 THEN Rat(ordinal * 25, 100) ELSE Rat(10, 100))
           /\ RLe(bonus, Rat(10, 100))

\* A LOW-urgency pair was scored by MatchingAgent: 1 x 0.25 is already above the
\* weight and the contribution is 0.10
C20_Witness ==
    /\ scored # None
    /\ scored.agent = "MatchingAgent"
    /\ pair.opportunity.urgency = UrgencyLevel("LOW")
    /\ scored.result.locals.urgency_bonus = Rat(10, 100)

\* C21: for every pair, confidence equals min(score x 1.2, 1.0); hence
\* confidence >= score always, and confidence equals 1.0 exactly when
\* score >= 1/1.2.
C21_ConfidenceFormula ==
    scored # None =>
        LET score == scored.result.score
            confidence == scored.result.confidence
            boosted == Rat(score.num * 12, score.den * 10)
        IN /\ confidence = (IF RLe(boosted, One) THEN boosted ELSE One)
           /\ RGe(confidence, score)
           /\ (confidence = One) <=> RGe(score, Rat(10, 12))

\* A pair scoring below 1/1.2 was scored: its confidence is above the score and
\* below 1
C21_Witness ==
    /\ scored # None
    /\ RLt(scored.result.score, Rat(10, 12))
    /\ RGt(scored.result.confidence, scored.result.score)
    /\ RLt(scored.result.confidence, One)

\* The reasoning strings of MatchingAgent, spelled as the code appends them
ReasonSkill == "Strong skill alignment"
ReasonLocation == "Perfect location match"
ReasonInterest == "Matches interests"
ReasonUrgency == "High urgency need"

\* C22: the reasoning list contains "strong skill alignment" iff the skill
\* sub-score is > 0.6, "perfect location match" iff the location sub-score is 1.0,
\* "matches interests" iff the impact area is among the volunteer's interests, and
\* "high urgency need" iff the urgency ordinal is >= 3; the strings present appear
\* in that order (skill, location, interest, urgency) and nothing else is appended.
C22_ReasoningList ==
    (scored # None /\ scored.agent = "MatchingAgent") =>
        LET l == scored.result.locals
            expected ==
                (IF RGt(l.skill_score, Rat(6, 10)) THEN <<ReasonSkill>> ELSE <<>>)
                \o (IF l.location_score = One THEN <<ReasonLocation>> ELSE <<>>)
                \o (IF pair.opportunity.impact_area \in pair.volunteer.interests
                    THEN <<ReasonInterest>> ELSE <<>>)
                \o (IF UrgencyValue[pair.opportunity.urgency.id] >= 3
                    THEN <<ReasonUrgency>> ELSE <<>>)
        IN scored.result.reasoning = expected

\* All four reasons were given to one pair, and in that order
C22_Witness ==
    /\ scored # None
    /\ scored.agent = "MatchingAgent"
    /\ scored.result.reasoning = <<ReasonSkill, ReasonLocation, ReasonInterest, ReasonUrgency>>

\* |a - b| <= tolerance
Near(a, b, tolerance) ==
    /\ RLe(a, RAdd(b, tolerance))
    /\ RLe(b, RAdd(a, tolerance))

ExampleScored == scored # None /\ scored.agent = "MatchingAgent" /\ pair = ExamplePair

\* C23: for a volunteer with skills {medical, leadership}, location "Metro City",
\* interests including healthcare, experience "expert" and an available slot,
\* against an opportunity requiring {medical, patient_care} in "Metro City" with
\* healthcare impact area and urgency HIGH, the skill sub-score is 0.5, the
\* normalized match score is approximately 0.695 and the confidence approximately
\* 0.834.
C23_ExampleScore ==
    ExampleScored =>
        /\ scored.result.locals.skill_score = Rat(5, 10)
        /\ Near(scored.result.score, Rat(695, 1000), Rat(5, 1000))
        /\ Near(scored.result.confidence, Rat(834, 1000), Rat(5, 1000))

\* C23 as amended: for that pair the skill sub-score is 0.5, the normalized match
\* score is 0.79 and the confidence 0.948.
C23_ExampleScoreAmended ==
    ExampleScored =>
        /\ scored.result.locals.skill_score = Rat(5, 10)
        /\ scored.result.score = Rat(79, 100)
        /\ scored.result.confidence = Rat(948, 1000)

\* The example pair was scored by MatchingAgent
C23_Witness ==
    /\ ExampleScored
    /\ scored.result.reasoning = <<ReasonLocation, ReasonInterest, ReasonUrgency>>

\* The outcome of scoring the pair's volunteer against the pair's opportunity
\* given the urgency u, by the agent that scored the pair
RescoredAtUrgency(u) ==
    LET opportunity == [pair.opportunity EXCEPT !.urgency = UrgencyLevel(u)]
    IN IF scored.agent = "MatchingAgent"
       THEN calculate_compatibility(pair.volunteer, opportunity)
       ELSE calculate_match(pair.volunteer, opportunity)

\* C27: the match score does not depend on the opportunity's urgency level: two
\* opportunities identical except for urgency receive exactly the same score and
\* confidence from any volunteer (only the reasoning list may differ).
C27_ScoreIndependentOfUrgency ==
    scored # None =>
        \A u \in UrgencyLevelNames :
            /\ RescoredAtUrgency(u).score = scored.result.score
            /\ RescoredAtUrgency(u).confidence = scored.result.confidence

\* A CRITICAL opportunity was scored; the same opportunity at LOW urgency gets the
\* same score and a different reasoning list
C27_Witness ==
    /\ scored # None
    /\ pair.opportunity.urgency = UrgencyLevel("CRITICAL")
    /\ RescoredAtUrgency("LOW").score = scored.result.score
    /\ RescoredAtUrgency("LOW").reasoning # scored.result.reasoning

\* The volunteer has none of the required skills, is elsewhere and does not list
\* the opportunity's impact area
NothingMatches ==
    /\ pair.opportunity.required_skills # <<>>
    /\ pair.volunteer.skills \cap SeqToSet(pair.opportunity.required_skills) = {}
    /\ pair.volunteer.location # pair.opportunity.location
    /\ pair.opportunity.impact_area \notin pair.volunteer.interests

\* C28: with the configured weights every match score lies in [0.23, 0.99]: the
\* maximum 1.0 is never attained, and a volunteer with no matching skill, a
\* different location and no matching interest still scores at least 0.23 and at
\* most 0.33.
C28_ScoreRange ==
    scored # None =>
        /\ RGe(scored.result.score, Rat(23, 100))
        /\ RLe(scored.result.score, Rat(99, 100))
        /\ NothingMatches => RLe(scored.result.score, Rat(33, 100))

\* A volunteer with nothing matching reached 0.33, above the 0.3 threshold of
\* find_matches
C28_Witness ==
    /\ scored # None
    /\ NothingMatches
    /\ scored.result.score = Rat(33, 100)
    /\ RGe(scored.result.score, MIN_MATCH_SCORE)

\* The two ends of the range are attained
C28_MinWitness == scored # None /\ scored.result.score = Rat(23, 100)
C28_MaxWitness == scored # None /\ scored.result.score = Rat(99, 100)

-----------------------------------------------------------------------------
(* Ranking claims, checked on the orchestrators (Spec) *)

Min(a, b) == IF a <= b THEN a ELSE b

SortedDesc(ms) ==
    \A i \in 1..(Len(ms) - 1) : RGe(ms[i].match_score, ms[i + 1].match_score)

AfterFindMatches == last \in {"register_volunteer", "add_volunteer"}
AfterFindVolunteers == last \in {"create_opportunity", "add_opportunity"}

\* The arguments of the last matcher call
NewVolunteer == volunteers[Len(volunteers)]
NewOpportunity == opportunities[Len(opportunities)]

\* The score the constructed system's calculator gives a pair
PairScore(volunteer, opportunity) ==
    IF system = "agent" THEN calculate_compatibility(volunteer, opportunity).score
    ELSE calculate_match(volunteer, opportunity).score

\* C2: the list returned by find_matches is ordered by match score non-increasing
\* and holds at most MAX_RECOMMENDATIONS (5) results.
C2_FindMatchesSortedTop5 ==
    AfterFindMatches => SortedDesc(matches) /\ Len(matches) <= 5

\* Six opportunities qualified, five were returned, and the best one was not the
\* first of the input.
C2_Witness ==
    /\ last = "register_volunteer"
    /\ Len(opportunities) = 6
    /\ Len(matches) = 5
    /\ matches[1].opportunity.id > 1
    /\ RGt(matches[1].match_score, matches[5].match_score)
    /\ \A i \in 1..6 : RGe(PairScore(NewVolunteer, opportunities[i]), Rat(3, 10))

\* The opportunities (by position) whose score against the new volunteer is >= t
QualifyingOpportunities(t) ==
    {i \in 1..Len(opportunities) : RGe(PairScore(NewVolunteer, opportunities[i]), t)}

\* C3: find_matches keeps an opportunity exactly when its score is >= 0.3: a pair
\* scoring exactly 0.3 is included, and no result below 0.3 is ever returned.
\* Stated for every matcher of the repository that finds matches for a volunteer.
C3_FindMatchesThresholdInclusive ==
    AfterFindMatches =>
        /\ \A k \in 1..Len(matches) : RGe(matches[k].match_score, Rat(3, 10))
        /\ Len(matches) = Min(5, Cardinality(QualifyingOpportunities(Rat(3, 10))))

\* C3 for MatchingAgent.find_matches alone
C3_FindMatchesModular ==
    last = "register_volunteer" =>
        /\ \A k \in 1..Len(matches) : RGe(matches[k].match_score, Rat(3, 10))
        /\ Len(matches) = Min(5, Cardinality(QualifyingOpportunities(Rat(3, 10))))

C3_ModularWitness ==
    /\ last = "register_volunteer"
    /\ \E k \in 1..Len(matches) : matches[k].match_score = Rat(3, 10)
    /\ Len(matches) < Len(opportunities)

\* The volunteers (by position) whose score against the new opportunity is >= t
QualifyingVolunteers(t) ==
    {i \in 1..Len(volunteers) : RGe(PairScore(volunteers[i], NewOpportunity), t)}

\* C4: find_volunteers returns only volunteers whose score is >= 0.4 (inclusive),
\* sorted by score descending, and at most opportunity.volunteers_needed of them.
\* Stated for every matcher of the repository that finds volunteers for an
\* opportunity.
C4_FindVolunteersThresholdSortedBounded ==
    AfterFindVolunteers =>
        /\ \A k \in 1..Len(matches) : RGe(matches[k].match_score, Rat(4, 10))
        /\ SortedDesc(matches)
        /\ Len(matches) <= NewOpportunity.volunteers_needed
        /\ Len(matches) = Min(NewOpportunity.volunteers_needed,
                              Cardinality(QualifyingVolunteers(Rat(4, 10))))

\* C4 for MatchingAgent.find_volunteers alone
C4_FindVolunteersModular ==
    last = "create_opportunity" =>
        /\ \A k \in 1..Len(matches) : RGe(matches[k].match_score, Rat(4, 10))
        /\ SortedDesc(matches)
        /\ Len(matches) = Min(NewOpportunity.volunteers_needed,
                              Cardinality(QualifyingVolunteers(Rat(4, 10))))

\* C5: in the output of find_matches and find_volunteers two results with equal
\* match score appear in the relative order of their opportunities/volunteers in
\* the input list (ids are input positions).
C5_StableTieBreak ==
    /\ AfterFindMatches =>
         \A i, j \in 1..Len(matches) :
            (i < j /\ matches[i].match_score = matches[j].match_score)
                => matches[i].opportunity.id < matches[j].opportunity.id
    /\ AfterFindVolunteers =>
         \A i, j \in 1..Len(matches) :
            (i < j /\ matches[i].match_score = matches[j].match_score)
                => matches[i].volunteer.id < matches[j].volunteer.id

\* find_volunteers returned two volunteers with the same score
C5_Witness ==
    /\ last = "create_opportunity"
    /\ Len(matches) = 2
    /\ matches[1].match_score = matches[2].match_score

-----------------------------------------------------------------------------
(* Allocation on its own: one opportunity, any candidate list *)

AllocOpportunities ==
    { Opportunity(1, <<"medical", "patient_care">>, "Metro City", ImpactArea(a),
                  UrgencyLevel(u), n) :
        a \in {"HEALTHCARE", "EDUCATION"}, u \in UrgencyLevelNames, n \in 1..2 }

\* Candidate lists for an opportunity: match results in any order, ids by position
CandidateLists(opportunity) ==
    UNION { { [i \in 1..n |->
                 LET volunteer == [vs[i] EXCEPT !.id = i]
                 IN MatchResult(volunteer, opportunity, calculate_match(volunteer, opportunity))] :
              vs \in [1..n -> VolunteerData] } :
            n \in 0..MaxCandidates }

InitAllocate ==
    /\ system = "ai_agent_system"
    /\ volunteers = <<>>
    /\ \E o \in AllocOpportunities : opportunities = <<o>>
    /\ matches = <<>>
    /\ candidates = <<>>
    /\ allocation = NoAllocation
    /\ last = "init"
    /\ IdleScore /\ IdleImpact /\ IdleRest

\* ResourceOptimizationAgent.allocate_resources(opportunity, candidates)
allocate ==
    /\ last = "init"
    /\ \E cs \in CandidateLists(opportunities[1]) :
        /\ candidates' = cs
        /\ allocation' = allocate_resources(opportunities[1], cs)
    /\ last' = "allocate_resources"
    /\ UNCHANGED <<system, volunteers, opportunities, matches, scoreVars, restVars, impactVars>>

NextAllocate == allocate

SpecAllocate == InitAllocate /\ [][NextAllocate]_vars

\* The multiplier the per-area table gives an impact area
TableAreaMultiplier(area) == IMPACT_MULTIPLIERS[Str(ImpactAreaValue[area.id])]

AssignedIds == {allocation.assigned_volunteers[k].volunteer_id :
                    k \in 1..Len(allocation.assigned_volunteers)}

\* C10: the plan lists at most opportunity.volunteers_needed assigned volunteers,
\* and they are the highest-scoring candidates: as many as are needed and
\* available, each a candidate, none scoring below a candidate left out.
C10_AllocateBoundedBest ==
    last = "allocate_resources" =>
        LET assigned == allocation.assigned_volunteers
            needed == opportunities[1].volunteers_needed
        IN /\ Len(assigned) <= needed
           /\ Len(assigned) = Min(needed, Len(candidates))
           /\ Cardinality(AssignedIds) = Len(assigned)
           /\ \A k \in 1..Len(assigned) :
                /\ assigned[k].volunteer_id \in 1..Len(candidates)
                /\ assigned[k].match_score = candidates[assigned[k].volunteer_id].match_score
           /\ \A k \in 1..Len(assigned) : \A i \in 1..Len(candidates) :
                i \notin AssignedIds => RGe(assigned[k].match_score, candidates[i].match_score)

\* More candidates than needed, and the best of them came last in the list
C10_Witness ==
    /\ last = "allocate_resources"
    /\ Len(candidates) = 3
    /\ opportunities[1].volunteers_needed = 1
    /\ Len(allocation.assigned_volunteers) = 1
    /\ allocation.assigned_volunteers[1].volunteer_id = 3
    /\ RGt(candidates[3].match_score, candidates[1].match_score)

\* C11: allocate_resources with an empty candidate list completes without raising
\* and returns a plan whose expected_impact is 0.0 and whose assigned-volunteer
\* list is empty.
C11_EmptyCandidatesZeroPlan ==
    (last = "allocate_resources" /\ candidates = <<>>) =>
        /\ allocation.assigned_volunteers = <<>>
        /\ allocation.expected_impact = Zero

\* The allocation ran on an empty candidate list for a critical opportunity that
\* needs two volunteers
C11_Witness ==
    /\ last = "allocate_resources"
    /\ candidates = <<>>
    /\ opportunities[1].volunteers_needed = 2
    /\ opportunities[1].urgency = UrgencyLevel("CRITICAL")
    /\ allocation.expected_impact = Zero

\* sum of the match scores listed in a plan's assigned_volunteers
RECURSIVE SumAssigned(_)
SumAssigned(assigned) ==
    IF assigned = <<>> THEN Zero
    ELSE RAdd(Head(assigned).match_score, SumAssigned(Tail(assigned)))

\* C12: for a non-empty set of assigned candidates, expected impact equals
\* (urgency ordinal x 0.25) x (arithmetic mean of the assigned candidates' match
\* scores) x (impact-area multiplier from the table); the mean is taken over the
\* truncated list, not over all candidates.
C12_ExpectedImpactFormula ==
    (last = "allocate_resources" /\ allocation.assigned_volunteers # <<>>) =>
        LET assigned == allocation.assigned_volunteers
            opportunity == opportunities[1]
            mean == RDiv(SumAssigned(assigned), Rat(Len(assigned), 1))
        IN allocation.expected_impact =
              RMul(RMul(Rat(UrgencyValue[opportunity.urgency.id] * 25, 100), mean),
                   TableAreaMultiplier(opportunity.impact_area))

\* Three candidates for two places in a healthcare opportunity; the candidate left
\* out scores lower, so the mean over all three differs from the mean used.
C12_Witness ==
    /\ last = "allocate_resources"
    /\ Len(candidates) = 3
    /\ Len(allocation.assigned_volunteers) = 2
    /\ opportunities[1].impact_area = ImpactArea("HEALTHCARE")
    /\ RDiv(SumScores(candidates), Rat(3, 1))
            # RDiv(SumAssigned(allocation.assigned_volunteers), Rat(2, 1))
    /\ RGt(allocation.expected_impact, Zero)

-----------------------------------------------------------------------------
(* Impact scoring *)

\* AgentUtils.calculate_urgency_multiplier: a dict keyed by UrgencyLevel members
calculate_urgency_multiplier(urgency_level) ==
    LET multipliers == (UrgencyLevel("LOW") :> Rat(5, 10)) @@ (UrgencyLevel("MEDIUM") :> One)
                       @@ (UrgencyLevel("HIGH") :> Rat(15, 10))
                       @@ (UrgencyLevel("CRITICAL") :> Rat(2, 1))
    IN DictGet(multipliers, urgency_level, One)

\* AgentUtils.calculate_impact_score(people_helped, hours_contributed, quality_rating)
AgentUtils_calculate_impact_score(people_helped, hours_contributed, quality_rating) ==
    LET base_score == RMin(RMul(people_helped, Rat(1, 10)), Rat(4, 10))
        time_score == RMin(RMul(RMul(hours_contributed, quality_rating), Rat(5, 100)),
                           Rat(3, 10))
    IN RAdd(base_score, time_score)

\* return final_score, the min(final_score, 1.0) left out
clamp_missing(final_score) == final_score

\* return min(final_score, 1.0)
clamp(final_score) == RMin(final_score, One)

\* ImpactAgent._calculate_impact_score: its local variables and its result
ImpactAgent_calculate_impact_score(opportunity, outcomes) ==
    LET people_impacted == DictGet(outcomes, "people_impacted", Zero)
        base1 == RAdd(Zero, RMin(RMul(people_impacted, Rat(1, 10)), Rat(4, 10)))
        hours == DictGet(outcomes, "hours_contributed", Zero)
        quality == DictGet(outcomes, "quality_rating", Rat(5, 10))
        base2 == RAdd(base1, RMul(RMul(hours, quality), Rat(5, 100)))
        area_multiplier == DictGet(IMPACT_MULTIPLIERS, opportunity.impact_area, One)
        urgency_multiplier == calculate_urgency_multiplier(opportunity.urgency)
        sustainability == DictGet(outcomes, "sustainability_score", Rat(5, 10))
        final_score == RMul(RMul(RMul(base2, area_multiplier), urgency_multiplier),
                            RAdd(One, sustainability))
    IN [people_impacted |-> people_impacted, hours |-> hours, quality |-> quality,
        base_score |-> base2, area_multiplier |-> area_multiplier,
        urgency_multiplier |-> urgency_multiplier, sustainability |-> sustainability,
        final_score |-> final_score, result |-> clamp(final_score)]

\* ImpactTrackingAgent._calculate_impact_score (no area multiplier)
ImpactTrackingAgent_calculate_impact_score(opportunity, outcomes) ==
    LET people_impacted == DictGet(outcomes, "people_impacted", Zero)
        base1 == RAdd(Zero, RMin(RMul(people_impacted, Rat(1, 10)), Rat(4, 10)))
        hours == DictGet(outcomes, "hours_contributed", Zero)
        quality == DictGet(outcomes, "quality_rating", Rat(5, 10))
        base2 == RAdd(base1, RMul(RMul(hours, quality), Rat(5, 100)))
        urgency_multiplier == RMul(Rat(UrgencyValue[opportunity.urgency.id], 1), Rat(25, 100))
        sustainability == DictGet(outcomes, "sustainability_score", Rat(5, 10))
        final_score == RMul(RMul(base2, urgency_multiplier), RAdd(One, sustainability))
    IN [people_impacted |-> people_impacted, hours |-> hours, quality |-> quality,
        base_score |-> base2, area_multiplier |-> One,
        urgency_multiplier |-> urgency_multiplier, sustainability |-> sustainability,
        final_score |-> final_score, result |-> clamp(final_score)]

\* Outcome dicts handed to record_completion; the empty dict takes every default
OutcomeDicts ==
    { ("people_impacted" :> Rat(p, 1)) @@ ("hours_contributed" :> Rat(h, 1))
      @@ ("quality_rating" :> Rat(q, 10)) @@ ("sustainability_score" :> Rat(su, 10)) :
        p \in {0, 3, 25, 10000}, h \in {0, 8, 1000}, q \in {0, 5, 9, 10}, su \in {0, 7, 10} }
    \cup { [k \in {} |-> Zero] }

ImpactOpportunities ==
    { Opportunity(1, <<"medical">>, "Metro City", ImpactArea(a), UrgencyLevel(u), 1) :
        a \in ImpactAreaNames, u \in UrgencyLevelNames }

ImpactVolunteer ==
    Volunteer(1, {"medical"}, "Metro City", Weekends, {ImpactArea("HEALTHCARE")}, "expert")

InitImpact ==
    /\ system \in {"agent", "ai_agent_system"}
    /\ volunteers = <<ImpactVolunteer>>
    /\ opportunities = <<>>
    /\ matches = <<>>
    /\ last = "init"
    /\ allocation = NoAllocation
    /\ IdleScore /\ IdleAllocate /\ IdleImpact /\ IdleRest

\* ImpactAgent.record_completion(volunteer, opportunity, outcomes), called with a
\* registered volunteer, an opportunity of opps and an outcome dict of outs while
\* fewer than limit completions are recorded
ImpactAgent_record_completion_on(opps, outs, limit) ==
    /\ system = "agent"
    /\ Len(completed_projects) < limit
    /\ \E i \in DOMAIN volunteers, opportunity \in opps, outcomes \in outs :
        LET volunteer == volunteers[i]
            calc == ImpactAgent_calculate_impact_score(opportunity, outcomes)
            completion_record ==
                [volunteer_id |-> volunteer.id,
                 opportunity_id |-> opportunity.id,
                 completion_date |-> now,
                 hours_contributed |-> DictGet(outcomes, "hours_contributed", Zero),
                 people_impacted |-> DictGet(outcomes, "people_impacted", Zero),
                 quality_rating |-> DictGet(outcomes, "quality_rating", Rat(5, 10)),
                 sustainability_score |-> DictGet(outcomes, "sustainability_score", Rat(5, 10)),
                 impact_score |-> calc.result]
        IN /\ opportunities' = <<opportunity>>
           /\ locals' = calc
           /\ completion' = completion_record
           /\ completed_projects' = Append(completed_projects, completion_record)
    /\ last' = "ImpactAgent.record_completion"
    /\ report' = None
    /\ UNCHANGED <<system, volunteers, matches, allocation, candidates, scoreVars, restVars, tracker,
                   completed_opportunities, now>>

ImpactAgent_record_completion ==
    ImpactAgent_record_completion_on(ImpactOpportunities, OutcomeDicts, 1)

\* ai_agent_system.py ImpactTrackingAgent.record_completion(volunteer, opportunity,
\* outcomes), called while fewer than limit completions are counted
ImpactTrackingAgent_record_completion_on(opps, outs, limit) ==
    /\ system = "ai_agent_system"
    /\ tracker.projects_completed < limit
    /\ \E i \in DOMAIN volunteers, opportunity \in opps, outcomes \in outs :
        LET volunteer == volunteers[i]
            calc == ImpactTrackingAgent_calculate_impact_score(opportunity, outcomes)
            completion_record ==
                [volunteer_id |-> volunteer.id,
                 opportunity_id |-> opportunity.id,
                 completion_date |-> now,
                 hours_contributed |-> DictGet(outcomes, "hours_contributed", Zero),
                 people_impacted |-> DictGet(outcomes, "people_impacted", Zero),
                 impact_score |-> calc.result]
        IN /\ opportunities' = <<opportunity>>
           /\ locals' = calc
           /\ completion' = completion_record
           /\ tracker' =
                [projects_completed |-> tracker.projects_completed + 1,
                 total_impact_score |-> RAdd(tracker.total_impact_score, calc.result),
                 volunteer_hours_logged |->
                    RAdd(tracker.volunteer_hours_logged,
                         DictGet(outcomes, "hours_contributed", Zero))]
    /\ last' = "ImpactTrackingAgent.record_completion"
    /\ report' = None
    /\ UNCHANGED <<system, volunteers, matches, allocation, candidates, scoreVars, restVars,
                   completed_projects, completed_opportunities, now>>

ImpactTrackingAgent_record_completion ==
    ImpactTrackingAgent_record_completion_on(ImpactOpportunities, OutcomeDicts, 1)

NextImpact == ImpactAgent_record_completion \/ ImpactTrackingAgent_record_completion

SpecImpact == InitImpact /\ [][NextImpact]_vars

-----------------------------------------------------------------------------
(* Impact scoring claims, checked on SpecImpact *)

\* C6: for non-negative people_impacted and hours_contributed and quality and
\* sustainability in [0,1], however large the inputs, the computed impact score
\* is <= 1.0 and >= 0.
C6_ImpactScoreInUnit ==
    completion # None => InUnit(completion.impact_score)

\* 10,000 people and 1,000 hours were reported; the product exceeded 1 and the
\* recorded score is 1.
C6_Witness ==
    /\ completion # None
    /\ completion.people_impacted = Rat(10000, 1)
    /\ completion.hours_contributed = Rat(1000, 1)
    /\ RGt(locals.final_score, One)
    /\ completion.impact_score = One

\* C7: the base is min(people_impacted x 0.1, 0.4) + min(hours_contributed x
\* quality_rating x 0.05, 0.3): the base never exceeds 0.7 and the hours term
\* never contributes more than 0.3.
C7_BaseTermsCapped ==
    locals # None =>
        LET people_term == RMin(RMul(locals.people_impacted, Rat(1, 10)), Rat(4, 10))
            hours_term == RMin(RMul(RMul(locals.hours, locals.quality), Rat(5, 100)),
                               Rat(3, 10))
        IN /\ locals.base_score = RAdd(people_term, hours_term)
           /\ RLe(locals.base_score, Rat(7, 10))

\* C8: the area multiplier applied for an opportunity is the table value of its
\* impact area (HEALTHCARE 1.5, ...); 1.0 is used only for an area absent from
\* the table.
C8_AreaMultiplierFromTable ==
    last = "ImpactAgent.record_completion" =>
        locals.area_multiplier = TableAreaMultiplier(opportunities[1].impact_area)

\* The multiplier the urgency table gives an urgency level
TableUrgencyMultiplier(urgency) ==
    (("LOW" :> Rat(5, 10)) @@ ("MEDIUM" :> One) @@ ("HIGH" :> Rat(15, 10))
     @@ ("CRITICAL" :> Rat(2, 1)))[urgency.id]

\* C9: the urgency multiplier used in impact scoring is taken from the table
\* low 0.5, medium 1.0, high 1.5, critical 2.0 and is not the ordinal x 0.25
\* scale of the matching bonus.  Stated for every impact scorer of the repository.
C9_UrgencyMultiplierFromTable ==
    locals # None =>
        locals.urgency_multiplier = TableUrgencyMultiplier(opportunities[1].urgency)

\* C9 for ImpactAgent._calculate_impact_score alone
C9_UrgencyMultiplierImpactAgent ==
    last = "ImpactAgent.record_completion" =>
        locals.urgency_multiplier = TableUrgencyMultiplier(opportunities[1].urgency)

-----------------------------------------------------------------------------
(* Reporting *)

MaxCompletions == 2
MaxDays == 2

RMax(a, b) == IF RGe(a, b) THEN a ELSE b

\* a / b on floats: raises ZeroDivisionError when b is zero
PyDiv(a, b) == IF b.num = 0 THEN ZeroDivisionError ELSE RDiv(a, b)

\* round(x, 2), ties to the even hundredth
Round2(x) ==
    LET scaled == x.num * 100
        q == scaled \div x.den
        rem == scaled % x.den
        up == \/ 2 * rem > x.den
              \/ (2 * rem = x.den /\ q % 2 = 1)
    IN Rat(IF up THEN q + 1 ELSE q, 100)

\* sum(c[field] for c in records), the fields being numbers with fractions
RECURSIVE SumField(_, _)
SumField(records, field) ==
    IF records = <<>> THEN Zero
    ELSE RAdd(Head(records)[field], SumField(Tail(records), field))

\* sum(c.get(field, 0) for c in records)
RECURSIVE SumGet(_, _)
SumGet(records, field) ==
    IF records = <<>> THEN Zero
    ELSE RAdd(DictGet(Head(records), field, Zero), SumGet(Tail(records), field))

\* len(set(c['volunteer_id'] for c in records))
UniqueVolunteers(records) == Cardinality({records[i].volunteer_id : i \in DOMAIN records})

\* the divisor without the max(..., 1) floor
floor_divisor_missing(total) == total

\* max(total, 1)
floor_divisor(total) == RMax(total, One)

\* main.py ImpactTrackingAgent.calculate_impact_score(outcomes, hours)
MainTracker_calculate_impact_score(outcomes, hours) ==
    LET people_helped == DictGet(outcomes, "people_helped", Zero)
        base1 == RAdd(Zero, RMin(RMul(people_helped, Rat(1, 10)), Rat(3, 10)))
        environmental == DictGet(outcomes, "environmental_impact", Zero)
        base2 == RAdd(base1, RMin(RMul(environmental, Rat(5, 100)), Rat(2, 10)))
        educational == DictGet(outcomes, "educational_impact", Zero)
        base3 == RAdd(base2, RMin(RMul(educational, Rat(8, 100)), Rat(2, 10)))
        hour_multiplier == RMin(RDiv(hours, Rat(10, 1)), Rat(2, 1))
        final_score == RMul(base3, hour_multiplier)
    IN RMin(final_score, One)

\* ImpactAgent.generate_report(timeframe_days); the source ends inside the returned
\* dict, after the key "unique_volunteers"
ImpactAgent_report(records, clock, timeframe_days) ==
    LET cutoff_date == clock - timeframe_days
        InWindow(c) == c.completion_date >= cutoff_date
        recent_completions == SelectSeq(records, InWindow)
    IN IF recent_completions = <<>>
       THEN [report_period |-> timeframe_days,
             message |-> "No completed projects in this period",
             total_completions |-> 0,
             total_impact_score |-> Zero]
       ELSE LET total_hours == SumField(recent_completions, "hours_contributed")
                total_impact == SumField(recent_completions, "impact_score")
                total_people == SumField(recent_completions, "people_impacted")
                unique_volunteers == UniqueVolunteers(recent_completions)
            IN [report_period |-> timeframe_days,
                total_completions |-> Len(recent_completions),
                total_volunteer_hours |-> total_hours,
                total_people_impacted |-> total_people,
                total_impact_score |-> Round2(total_impact),
                unique_volunteers |-> unique_volunteers]

\* main.py ImpactTrackingAgent.generate_impact_report(timeframe_days)
MainTracker_report(records, clock, timeframe_days) ==
    LET cutoff_date == clock - timeframe_days
        InWindow(c) == c.timestamp >= cutoff_date
        recent_completions == SelectSeq(records, InWindow)
        total_hours == SumField(recent_completions, "hours_contributed")
        total_impact == SumField(recent_completions, "impact_score")
        unique_volunteers == UniqueVolunteers(recent_completions)
        average_impact_per_hour == PyDiv(total_impact, floor_divisor(total_hours))
    IN IF average_impact_per_hour = ZeroDivisionError THEN ZeroDivisionError
       ELSE [report_period |-> timeframe_days,
             total_volunteer_hours |-> total_hours,
             total_impact_score |-> total_impact,
             unique_volunteers |-> unique_volunteers,
             average_impact_per_hour |-> average_impact_per_hour,
             completions_count |-> Len(recent_completions)]

\* ai_agent_system.py ImpactTrackingAgent._calculate_efficiency_rating: impact per
\* logged hour, the divisor floored at 1
calculate_efficiency_rating(counters) ==
    RDiv(counters.total_impact_score, RMax(counters.volunteer_hours_logged, One))

\* ai_agent_system.py ImpactTrackingAgent.generate_impact_report()
ImpactTrackingAgent_report(counters) ==
    LET average_impact_per_project ==
            PyDiv(counters.total_impact_score,
                  floor_divisor(Rat(counters.projects_completed, 1)))
    IN IF average_impact_per_project = ZeroDivisionError THEN ZeroDivisionError
       ELSE [total_projects_completed |-> counters.projects_completed,
             total_volunteer_hours |-> counters.volunteer_hours_logged,
             total_impact_score |-> counters.total_impact_score,
             average_impact_per_project |-> average_impact_per_project,
             efficiency_rating |-> calculate_efficiency_rating(counters)]

\* tools.py AnalyticsEngine.generate_impact_report(completions)
AnalyticsEngine_report(completions) ==
    LET total_hours == SumGet(completions, "hours_contributed")
        total_people == SumGet(completions, "people_impacted")
        avg_impact == IF completions # <<>>
                      THEN PyDiv(SumGet(completions, "impact_score"),
                                 Rat(Len(completions), 1))
                      ELSE Zero
        efficiency == PyDiv(total_people, floor_divisor(total_hours))
    IN IF avg_impact = ZeroDivisionError \/ efficiency = ZeroDivisionError
       THEN ZeroDivisionError
       ELSE [total_completions |-> Len(completions),
             total_volunteer_hours |-> total_hours,
             total_people_impacted |-> total_people,
             average_impact_score |-> avg_impact,
             efficiency_rating |-> RMin(efficiency, Rat(10, 1))]

\* What record_completion and the report generators are driven with
ReportOpportunities ==
    { Opportunity(1, <<"medical">>, "Metro City", ImpactArea("HEALTHCARE"),
                  UrgencyLevel("LOW"), 1) }

ReportOutcomes ==
    { [k \in {} |-> Zero],
      ("people_impacted" :> Rat(3, 1)) @@ ("hours_contributed" :> Rat(8, 1))
      @@ ("quality_rating" :> Rat(9, 10)) @@ ("sustainability_score" :> Rat(7, 10)) }

MainOutcomes ==
    { [k \in {} |-> Zero],
      ("people_helped" :> Rat(2, 1)) @@ ("educational_impact" :> Rat(1, 1)) }

MainHours == {Zero, Rat(1, 2), Rat(8, 1)}

ReportWindows == {0, 1, 30}

InitReport ==
    /\ system \in {"agent", "main", "ai_agent_system"}
    /\ volunteers = <<ImpactVolunteer, [ImpactVolunteer EXCEPT !.id = 2]>>
    /\ opportunities = <<>>
    /\ matches = <<>>
    /\ last = "init"
    /\ allocation = NoAllocation
    /\ IdleScore /\ IdleAllocate /\ IdleImpact /\ IdleRest

\* time passes between two calls: datetime.now() reads a later clock
advance_clock ==
    /\ now < MaxDays
    /\ now' = now + 1
    /\ last' = "clock"
    /\ report' = None
    /\ UNCHANGED <<system, volunteers, opportunities, matches, allocation, candidates,
                   scoreVars, restVars, completed_projects, tracker, completion, locals,
                   completed_opportunities>>

ImpactAgent_record_completion_seq ==
    ImpactAgent_record_completion_on(ReportOpportunities, ReportOutcomes, MaxCompletions)

ImpactTrackingAgent_record_completion_seq ==
    ImpactTrackingAgent_record_completion_on(ReportOpportunities, ReportOutcomes,
                                             MaxCompletions)

\* main.py ImpactTrackingAgent.record_completion(volunteer_id, opportunity_id,
\* hours_contributed, outcomes)
MainTracker_record_completion ==
    /\ system = "main"
    /\ Len(completed_opportunities) < MaxCompletions
    /\ \E i \in DOMAIN volunteers, hours_contributed \in MainHours, outcomes \in MainOutcomes :
        LET record == [volunteer_id |-> volunteers[i].id,
                       opportunity_id |-> 1,
                       hours_contributed |-> hours_contributed,
                       outcomes |-> outcomes,
                       timestamp |-> now,
                       impact_score |->
                           MainTracker_calculate_impact_score(outcomes, hours_contributed)]
        IN /\ completed_opportunities' = Append(completed_opportunities, record)
           /\ completion' = record
    /\ last' = "main.ImpactTrackingAgent.record_completion"
    /\ report' = None
    /\ UNCHANGED <<system, volunteers, opportunities, matches, allocation, candidates,
                   scoreVars, restVars, completed_projects, tracker, locals, now>>

\* what a report generation leaves as it was: everything but the returned report
reportFrame == <<system, volunteers, opportunities, matches, allocation, candidates,
                 scoreVars, restVars, completed_projects, tracker, completion, locals,
                 completed_opportunities, now>>

\* ImpactAgent.generate_report(timeframe_days)
ImpactAgent_generate_report ==
    /\ system = "agent"
    /\ \E timeframe_days \in ReportWindows :
        report' = ImpactAgent_report(completed_projects, now, timeframe_days)
    /\ last' = "ImpactAgent.generate_report"
    /\ UNCHANGED reportFrame

\* main.py ImpactTrackingAgent.generate_impact_report(timeframe_days)
MainTracker_generate_impact_report ==
    /\ system = "main"
    /\ \E timeframe_days \in ReportWindows :
        report' = MainTracker_report(completed_opportunities, now, timeframe_days)
    /\ last' = "main.ImpactTrackingAgent.generate_impact_report"
    /\ UNCHANGED reportFrame

\* ai_agent_system.py ImpactTrackingAgent.generate_impact_report()
ImpactTrackingAgent_generate_impact_report ==
    /\ system = "ai_agent_system"
    /\ report' = ImpactTrackingAgent_report(tracker)
    /\ last' = "ImpactTrackingAgent.generate_impact_report"
    /\ UNCHANGED reportFrame

\* tools.py AnalyticsEngine.generate_impact_report(completions), handed the
\* completion records the running system holds
AnalyticsEngine_generate_impact_report ==
    /\ system \in {"agent", "main"}
    /\ report' = AnalyticsEngine_report(IF system = "agent" THEN completed_projects
                                        ELSE completed_opportunities)
    /\ last' = "AnalyticsEngine.generate_impact_report"
    /\ UNCHANGED reportFrame

NextReport ==
    \/ advance_clock
    \/ ImpactAgent_record_completion_seq
    \/ ImpactTrackingAgent_record_completion_seq
    \/ MainTracker_record_completion
    \/ ImpactAgent_generate_report
    \/ MainTracker_generate_impact_report
    \/ ImpactTrackingAgent_generate_impact_report
    \/ AnalyticsEngine_generate_impact_report

SpecReport == InitReport /\ [][NextReport]_vars

-----------------------------------------------------------------------------
(* Reporting claims, checked on SpecReport *)

WindowReportOps == {"ImpactAgent.generate_report",
                    "main.ImpactTrackingAgent.generate_impact_report"}

\* The completion records the running system holds, and the time each was stamped with
SystemRecords == IF system = "agent" THEN completed_projects ELSE completed_opportunities
RecordTime(c) == IF system = "agent" THEN c.completion_date ELSE c.timestamp

\* The records stamped at or after now - W
RecordsInWindow(W) ==
    LET Recent(c) == RecordTime(c) >= now - W
    IN SelectSeq(SystemRecords, Recent)

\* The records the report just returned was asked to cover
ReportedRecords ==
    IF last \in WindowReportOps THEN RecordsInWindow(report.report_period)
    ELSE SystemRecords

\* The report carries one of the keys and its value is v
ReportHas(keys, v) == \E k \in keys : k \in DOMAIN report /\ report[k] = v

CompletionsKeys == {"total_completions", "completions_count"}
HoursKeys == {"total_volunteer_hours"}
PeopleKeys == {"total_people_impacted"}
ImpactKeys == {"total_impact_score"}
EmptyPeriodKeys == {"message"}

\* C13: when no completion record falls inside the reporting window (including
\* when there are no records at all), report generation returns a report with
\* every total equal to zero (completions, hours, people impacted, impact score)
\* plus an explicit empty-period indicator, and performs no division by zero.
C13_EmptyWindowZeroReport ==
    (/\ last \in WindowReportOps \cup {"AnalyticsEngine.generate_impact_report"}
     /\ report # ZeroDivisionError
     /\ ReportedRecords = <<>>) =>
        /\ ReportHas(CompletionsKeys, 0)
        /\ ReportHas(HoursKeys, Zero)
        /\ ReportHas(PeopleKeys, Zero)
        /\ ReportHas(ImpactKeys, Zero)
        /\ \E k \in EmptyPeriodKeys : k \in DOMAIN report

\* The part of C13 every report generator satisfies: no division by zero is
\* raised, and the completions count of an empty period is 0
C13_EmptyWindowNoDivision ==
    last \in WindowReportOps \cup {"AnalyticsEngine.generate_impact_report"} =>
        /\ report # ZeroDivisionError
        /\ ReportedRecords = <<>> => ReportHas(CompletionsKeys, 0)

\* C14: after any sequence of recorded completions, a report over window W counts
\* exactly the records whose completion time is >= now - W (a record exactly at
\* the cutoff is included, older ones excluded), and its total hours, total people
\* impacted, total impact and unique-volunteer count are the sums/distinct count
\* over exactly those records.
C14_WindowTotals ==
    (last \in WindowReportOps /\ report # ZeroDivisionError) =>
        /\ ReportHas(CompletionsKeys, Len(ReportedRecords))
        /\ ReportHas(HoursKeys, SumGet(ReportedRecords, "hours_contributed"))
        /\ ReportHas(PeopleKeys, SumGet(ReportedRecords, "people_impacted"))
        /\ ReportHas(ImpactKeys, SumGet(ReportedRecords, "impact_score"))
        /\ ReportHas({"unique_volunteers"}, UniqueVolunteers(ReportedRecords))

\* The part of C14 both windowed generators satisfy: the count is that of the
\* records at or after the cutoff
C14_WindowCount ==
    (last \in WindowReportOps /\ report # ZeroDivisionError) =>
        ReportHas(CompletionsKeys, Len(ReportedRecords))

\* A one-day report that counted a record stamped exactly at the cutoff and left
\* out an older one
C14_CountWitness ==
    /\ last \in WindowReportOps
    /\ report.report_period = 1
    /\ Len(SystemRecords) = 2
    /\ RecordTime(SystemRecords[1]) = now - 2
    /\ RecordTime(SystemRecords[2]) = now - 1
    /\ ReportHas(CompletionsKeys, 1)

\* C15: the report's average impact per hour is total impact divided by
\* max(total hours, 1): with total hours 0 (or below 1) the divisor is 1, so the
\* average is defined for every set of records and never divides by zero; the
\* average impact per completion likewise never divides by zero.
C15_AveragesDefined ==
    /\ last = "main.ImpactTrackingAgent.generate_impact_report" =>
        /\ report # ZeroDivisionError
        /\ LET total_hours == SumGet(ReportedRecords, "hours_contributed")
               total_impact == SumGet(ReportedRecords, "impact_score")
               divisor == IF RLt(total_hours, One) THEN One ELSE total_hours
           IN report.average_impact_per_hour = RDiv(total_impact, divisor)
    /\ last = "ImpactTrackingAgent.generate_impact_report" =>
        /\ report # ZeroDivisionError
        /\ LET n == tracker.projects_completed
           IN report.average_impact_per_project =
                 RDiv(tracker.total_impact_score, Rat(IF n < 1 THEN 1 ELSE n, 1))
    /\ last = "AnalyticsEngine.generate_impact_report" =>
        /\ report # ZeroDivisionError
        /\ report.average_impact_score =
              (IF SystemRecords = <<>> THEN Zero
               ELSE RDiv(SumGet(SystemRecords, "impact_score"),
                         Rat(Len(SystemRecords), 1)))

\* A report over records totalling half an hour: the divisor was 1 and the average
\* per hour is the total impact
C15_Witness ==
    /\ last = "main.ImpactTrackingAgent.generate_impact_report"
    /\ report.completions_count >= 1
    /\ report.total_volunteer_hours = Rat(1, 2)
    /\ RGt(report.total_impact_score, Zero)
    /\ report.average_impact_per_hour = report.total_impact_score

\* The steps that are calls of a core operation of the impact scorer and the
\* report aggregator
RecordOps == {"ImpactAgent.record_completion", "ImpactTrackingAgent.record_completion",
              "main.ImpactTrackingAgent.record_completion"}
ReportOps == WindowReportOps \cup {"ImpactTrackingAgent.generate_impact_report",
                                   "AnalyticsEngine.generate_impact_report"}

\* C16: every core operation is side-effect free: it leaves the caller-owned
\* volunteer and completion collections and the component's own state unchanged,
\* so the result of a later call does not depend on the calls made before it.
\* Stated for the impact record and report operations.
C16_OperationsSideEffectFree ==
    [][last' \in RecordOps \cup ReportOps =>
            UNCHANGED <<volunteers, completed_projects, completed_opportunities, tracker>>]_vars

\* The part of C16 the report generators satisfy
C16_ReportsSideEffectFree ==
    [][last' \in ReportOps =>
            UNCHANGED <<volunteers, completed_projects, completed_opportunities, tracker>>]_vars

-----------------------------------------------------------------------------
(* Degenerate inputs: empty lists, empty maps, unknown tags, empty outcomes *)

\* Volunteers with an experience tag outside the table and no free slot
DegenerateVolunteers ==
    { Volunteer(1, sk, loc, av, {}, "veteran") :
        sk \in {{}, {"medical"}},
        loc \in {"Metro City", "Suburb Town"},
        av \in {NoSlots, AllBusy} }

\* Opportunities that require no skill
DegenerateOpportunities ==
    { Opportunity(1, <<>>, "Metro City", ImpactArea("HEALTHCARE"), UrgencyLevel(u), 1) :
        u \in UrgencyLevelNames }

\* The empty outcomes dict, and one that states zero hours and zero people
DegenerateOutcomes ==
    { [k \in {} |-> Zero],
      ("people_impacted" :> Zero) @@ ("hours_contributed" :> Zero) }

InitDegenerate ==
    /\ system \in {"agent", "ai_agent_system"}
    /\ pair \in [volunteer : DegenerateVolunteers, opportunity : DegenerateOpportunities]
    /\ scored = None
    /\ volunteers = <<pair.volunteer>>
    /\ opportunities = <<>>
    /\ matches = <<>>
    /\ allocation = NoAllocation
    /\ last = "init"
    /\ IdleAllocate /\ IdleImpact /\ IdleRest

\* find_matches / find_best_matches(volunteer, []): no opportunity exists yet
find_matches_empty ==
    /\ last = "init"
    /\ matches' = IF system = "agent" THEN find_matches(pair.volunteer, <<>>)
                  ELSE find_best_matches(pair.volunteer, <<>>)
    /\ last' = "find_matches"
    /\ UNCHANGED <<system, volunteers, opportunities, allocation, candidates, scoreVars,
                   restVars, impactVars>>

\* find_volunteers / find_volunteers_for_opportunity(opportunity, []): nobody registered
find_volunteers_empty ==
    /\ last = "init"
    /\ matches' = IF system = "agent" THEN find_volunteers(pair.opportunity, <<>>)
                  ELSE find_volunteers_for_opportunity(pair.opportunity, <<>>)
    /\ last' = "find_volunteers"
    /\ UNCHANGED <<system, volunteers, opportunities, allocation, candidates, scoreVars,
                   restVars, impactVars>>

\* ResourceOptimizationAgent.allocate_resources(opportunity, [])
allocate_empty ==
    /\ last = "init"
    /\ candidates' = <<>>
    /\ allocation' = allocate_resources(pair.opportunity, <<>>)
    /\ last' = "allocate_resources"
    /\ UNCHANGED <<system, volunteers, opportunities, matches, scoreVars, restVars,
                   impactVars>>

ImpactAgent_record_degenerate ==
    ImpactAgent_record_completion_on({pair.opportunity}, DegenerateOutcomes, 1)

ImpactTrackingAgent_record_degenerate ==
    ImpactTrackingAgent_record_completion_on({pair.opportunity}, DegenerateOutcomes, 1)

NextDegenerate ==
    \/ score_compatibility
    \/ score_match
    \/ find_matches_empty
    \/ find_volunteers_empty
    \/ allocate_empty
    \/ ImpactAgent_record_degenerate
    \/ ImpactTrackingAgent_record_degenerate

SpecDegenerate == InitDegenerate /\ [][NextDegenerate]_vars

\* C24: no core operation raises on a degenerate input; each yields its defined
\* neutral or zero value: an empty required-skills list scores 0.5 on skills, an
\* unknown experience tag 0.5, an availability map with no free slot 0.2, an
\* empty opportunity or volunteer list gives an empty result list, an empty
\* candidate list the zero plan, and outcomes with no hours and no people an
\* impact score of 0.
C24_DegenerateInputsDefined ==
    /\ scored # None =>
        /\ scored.result.locals.skill_score = Rat(5, 10)
        /\ scored.result.locals.exp_score = Rat(5, 10)
        /\ scored.result.locals.avail_score = Rat(2, 10)
        /\ InUnit(scored.result.score)
        /\ InUnit(scored.result.confidence)
    /\ last \in {"find_matches", "find_volunteers"} => matches = <<>>
    /\ last = "allocate_resources" =>
        /\ allocation.assigned_volunteers = <<>>
        /\ allocation.expected_impact = Zero
    /\ completion # None =>
        /\ completion.hours_contributed = Zero
        /\ completion.people_impacted = Zero
        /\ completion.impact_score = Zero
        /\ locals.final_score = Zero

\* A volunteer with an empty availability map was scored against an opportunity
\* requiring nothing, and a completion with the empty outcomes dict was recorded
C24_Witness ==
    /\ scored # None
    /\ pair.volunteer.availability = NoSlots
    /\ pair.opportunity.required_skills = <<>>
    /\ scored.result.locals.exp_score = Rat(5, 10)
    /\ last = "ImpactAgent.record_completion"
    /\ completion.impact_score = Zero
    /\ DOMAIN completed_projects = {1}

-----------------------------------------------------------------------------
(* main.py ResourceOptimizationAgent: greedy allocation over a resource pool *)

MaxGreedyOps == 2

ResourceTypes == {"volunteers", "funding", "equipment", "supervision"}

\* estimate_resource_needs(opportunity): quantities are Python ints
estimate_resource_needs(opportunity) ==
    LET n == Len(opportunity.required_skills)
    IN [volunteers |-> n,
        funding |-> opportunity.urgency * 100,
        equipment |-> IF n - 2 > 1 THEN n - 2 ELSE 1,
        supervision |-> IF n > 3 THEN 1 ELSE 0]

\* the key of the sort: (x['urgency'], -len(x['required_skills'])), compared as tuples
PriorityKeyGe(a, b) ==
    \/ a.urgency > b.urgency
    \/ a.urgency = b.urgency /\ -Len(a.required_skills) >= -Len(b.required_skills)

\* sorted(..., reverse=True) is stable: equal keys keep their input order
RECURSIVE InsertByPriority(_, _)
InsertByPriority(m, s) ==
    IF s = <<>> THEN <<m>>
    ELSE IF PriorityKeyGe(Head(s), m)
         THEN <<Head(s)>> \o InsertByPriority(m, Tail(s))
         ELSE <<m>> \o s

RECURSIVE SortByPriorityDesc(_)
SortByPriorityDesc(ops) ==
    IF ops = <<>> THEN <<>>
    ELSE InsertByPriority(ops[Len(ops)], SortByPriorityDesc(SubSeq(ops, 1, Len(ops) - 1)))

\* the opportunities served in the order they were handed in
prioritize_input_order(ops) == ops

\* prioritized_ops = sorted(opportunities, key=..., reverse=True)
prioritize(ops) == SortByPriorityDesc(ops)

\* the estimated need handed out whatever is left
allocated_amount_unbounded(needed, left) == needed

\* allocated = min(needed, remaining_resources.get(resource_type, 0))
allocated_amount(needed, left) == IF needed < left THEN needed ELSE left

\* One pass of the for loop body over an opportunity: its op_allocation
serve_allocation(opportunity, remaining_resources) ==
    LET needs == estimate_resource_needs(opportunity)
        given(t) == allocated_amount(needs[t], DictGet(remaining_resources, t, 0))
    IN [t \in {r \in ResourceTypes : given(r) > 0} |-> given(t)]

\* remaining_resources[resource_type] -= allocated, for each type handed out
serve_remaining(op_allocation, remaining_resources) ==
    [t \in DOMAIN remaining_resources |->
        IF t \in DOMAIN op_allocation THEN remaining_resources[t] - op_allocation[t]
        ELSE remaining_resources[t]]

\* Opportunity dicts as main.py builds them; id is the position in the input list
GreedySkillLists ==
    { <<>>, <<"medical">>, <<"medical", "patient_care", "logistics", "teaching">> }

GreedyOpportunityLists ==
    UNION { { [i \in 1..n |-> [id |-> i, urgency |-> f[i].urgency,
                               required_skills |-> f[i].required_skills]] :
              f \in [1..n -> [urgency : {1, 3}, required_skills : GreedySkillLists]] } :
            n \in 0..MaxGreedyOps }

\* Resource pools: a type may be missing from the dict
GreedyPools ==
    { [t \in ts |-> q[t]] :
        ts \in { ResourceTypes, ResourceTypes \ {"supervision"} },
        q \in [volunteers : {0, 2, 5}, funding : {150, 400}, equipment : {1, 3},
               supervision : {1}] }

InitGreedy ==
    /\ greedy \in [pc : {"call"}, opportunities : GreedyOpportunityLists,
                   available_resources : GreedyPools, prioritized_ops : {<<>>},
                   served : {0}, allocation : {<<>>}, remaining_resources : {<<>>}]
    /\ IdleOrchestrator /\ IdleScore /\ IdleAllocate /\ IdleImpact
    /\ IdleCrisis /\ IdleAsync

greedyFrame == <<orchVars, allocation, candidates, scoreVars, impactVars, crisisVars,
                 asyncVars>>

\* lines 185-190: sort, allocation = {}, remaining_resources = available_resources.copy()
greedy_prioritize ==
    /\ greedy.pc = "call"
    /\ greedy' = [greedy EXCEPT !.pc = "loop",
                                !.prioritized_ops = prioritize(greedy.opportunities),
                                !.allocation = <<>>,
                                !.remaining_resources = greedy.available_resources]
    /\ UNCHANGED greedyFrame

\* lines 192-201: one iteration of `for opportunity in prioritized_ops`
greedy_serve ==
    /\ greedy.pc = "loop"
    /\ greedy.served < Len(greedy.prioritized_ops)
    /\ LET opportunity == greedy.prioritized_ops[greedy.served + 1]
           op_allocation == serve_allocation(opportunity, greedy.remaining_resources)
       IN greedy' = [greedy EXCEPT
                        !.served = @ + 1,
                        !.remaining_resources = serve_remaining(op_allocation, @),
                        !.allocation = IF DOMAIN op_allocation # {}
                                       THEN (opportunity.id :> op_allocation) @@ @
                                       ELSE @]
    /\ UNCHANGED greedyFrame

\* line 203: return allocation
greedy_return ==
    /\ greedy.pc = "loop"
    /\ greedy.served = Len(greedy.prioritized_ops)
    /\ greedy' = [greedy EXCEPT !.pc = "returned"]
    /\ UNCHANGED greedyFrame

NextGreedy == greedy_prioritize \/ greedy_serve \/ greedy_return

SpecGreedy == InitGreedy /\ [][NextGreedy]_vars

\* what the allocation so far gives opportunity id of resource type t
Allocated(id, t) ==
    IF id \in DOMAIN greedy.allocation /\ t \in DOMAIN greedy.allocation[id]
    THEN greedy.allocation[id][t] ELSE 0

RECURSIVE SumAllocated(_, _)
SumAllocated(n, t) == IF n = 0 THEN 0 ELSE Allocated(n, t) + SumAllocated(n - 1, t)

Available(t) == DictGet(greedy.available_resources, t, 0)

\* C25: in the greedy allocation, for every resource type the quantities
\* allocated across all opportunities sum to at most the available quantity,
\* the remaining quantity is never negative at any step, and no opportunity
\* receives more of a type than its estimated need.
C25_AllocationWithinPool ==
    greedy.pc # "call" =>
        \A t \in ResourceTypes :
            /\ SumAllocated(Len(greedy.opportunities), t) <= Available(t)
            /\ t \in DOMAIN greedy.remaining_resources =>
                    greedy.remaining_resources[t] >= 0
            /\ \A i \in 1..Len(greedy.opportunities) :
                    Allocated(i, t) <= estimate_resource_needs(greedy.opportunities[i])[t]

\* Two opportunities were served from a pool of 5 volunteers: the first took its
\* 4, the second got the last one of the 4 it needs
C25_Witness ==
    /\ greedy.pc = "returned"
    /\ Len(greedy.opportunities) = 2
    /\ Available("volunteers") = 5
    /\ Allocated(greedy.prioritized_ops[1].id, "volunteers") = 4
    /\ Allocated(greedy.prioritized_ops[2].id, "volunteers") = 1
    /\ greedy.remaining_resources["volunteers"] = 0

\* the opportunity served at position i, and what it needs of type t
Served(i) == greedy.prioritized_ops[i]
Need(i, t) == estimate_resource_needs(Served(i))[t]

\* C26: the greedy allocation serves opportunities in descending urgency, ties
\* fewer required skills first, then input order; an opportunity that receives
\* less of a type than its need leaves none of that type to those served after
\* it; a higher-urgency opportunity is never short of a resource that a
\* lower-urgency opportunity was given.
C26_UrgencyPriority ==
    greedy.pc # "call" =>
        /\ Len(greedy.prioritized_ops) = Len(greedy.opportunities)
        /\ {Served(i) : i \in 1..Len(greedy.prioritized_ops)}
              = {greedy.opportunities[i] : i \in 1..Len(greedy.opportunities)}
        /\ \A i, j \in 1..Len(greedy.prioritized_ops) :
              i < j =>
                \/ Served(i).urgency > Served(j).urgency
                \/ /\ Served(i).urgency = Served(j).urgency
                   /\ Len(Served(i).required_skills) < Len(Served(j).required_skills)
                \/ /\ Served(i).urgency = Served(j).urgency
                   /\ Len(Served(i).required_skills) = Len(Served(j).required_skills)
                   /\ Served(i).id < Served(j).id
        /\ \A t \in ResourceTypes : \A i, j \in 1..greedy.served :
              /\ (i < j /\ Allocated(Served(i).id, t) < Need(i, t))
                    => Allocated(Served(j).id, t) = 0
              /\ (Served(i).urgency > Served(j).urgency /\ Allocated(Served(j).id, t) > 0)
                    => Allocated(Served(i).id, t) = Need(i, t)

\* The second opportunity of the input was the more urgent and was served first;
\* it got 150 of the 300 funding it needs and the other one got no funding, but
\* was given volunteers
C26_Witness ==
    /\ greedy.pc = "returned"
    /\ Len(greedy.prioritized_ops) = 2
    /\ Served(1).id = 2
    /\ Served(1).urgency = 3
    /\ Served(2).urgency = 1
    /\ Allocated(2, "funding") = 150
    /\ Allocated(1, "funding") = 0
    /\ Allocated(1, "volunteers") > 0

-----------------------------------------------------------------------------
(* agent.py: emergency mobilization of the registered volunteers *)

CRISIS_RESPONSE_RADIUS_KM == 50

\* locations farther apart than the response radius when their names differ
calculate_proximity_far(loc1, loc2) ==
    IF LowerCase[loc1] = LowerCase[loc2] THEN 0 ELSE 75

\* _calculate_proximity: 0 if loc1.lower() == loc2.lower() else 25
calculate_proximity(loc1, loc2) ==
    IF LowerCase[loc1] = LowerCase[loc2] THEN 0 ELSE 25

\* nearby_volunteers: the registered volunteers within the radius, in list order
nearby_volunteers(vols, crisis_data) ==
    LET InRadius(v) == calculate_proximity(v.location, crisis_data.location)
                            < CRISIS_RESPONSE_RADIUS_KM
    IN SelectSeq(vols, InRadius)

\* Volunteers as registered, and one who spells the town in lower case
CrisisVolunteerData ==
    VolunteerData \cup
    { Volunteer(0, {"logistics"}, "metro city", AllBusy,
                {ImpactArea("DISASTER_RELIEF")}, "beginner") }

CrisisData == { [location |-> loc] : loc \in DOMAIN LowerCase }

InitCrisis ==
    /\ system = "agent"
    /\ volunteers = <<>>
    /\ opportunities = <<>>
    /\ matches = <<>>
    /\ allocation = NoAllocation
    /\ last = "init"
    /\ IdleScore /\ IdleAllocate /\ IdleImpact /\ IdleRest

\* SocialGoodOrchestrator._mobilize_emergency_response(crisis_data): one
\* send_emergency_alert(volunteer, crisis_data) per nearby volunteer, then
\* return len(nearby_volunteers)
mobilize_emergency_response ==
    /\ system = "agent"
    /\ \E crisis_data \in CrisisData :
        LET nearby == nearby_volunteers(volunteers, crisis_data)
        IN /\ alerts' = [i \in 1..Len(nearby) |->
                            [volunteer |-> nearby[i].id, crisis_data |-> crisis_data]]
           /\ mobilized' = Len(nearby)
    /\ last' = "mobilize_emergency_response"
    /\ UNCHANGED <<system, volunteers, opportunities, matches, allocation, candidates,
                   scoreVars, impactVars, greedyVars, asyncVars>>

register_volunteer_anywhere == register_volunteer_on(CrisisVolunteerData)

NextCrisis == register_volunteer_anywhere \/ mobilize_emergency_response

SpecCrisis == InitCrisis /\ [][NextCrisis]_vars

\* number of alerts of the last mobilization addressed to volunteer id
AlertsTo(id) == Cardinality({k \in DOMAIN alerts : alerts[k].volunteer = id})

\* C29: after any sequence of registrations, emergency mobilization sends exactly
\* one alert to every registered volunteer and returns the number of registered
\* volunteers, whatever the volunteers' and the crisis' locations: the computed
\* proximity is always 0 or 25, both below the 50 km radius.
C29_EveryVolunteerAlertedOnce ==
    /\ last = "mobilize_emergency_response" =>
        /\ \A i \in DOMAIN volunteers : AlertsTo(volunteers[i].id) = 1
        /\ Len(alerts) = Len(volunteers)
        /\ mobilized = Len(volunteers)
    /\ \A i \in DOMAIN volunteers : \A c \in CrisisData :
        /\ calculate_proximity(volunteers[i].location, c.location) \in {0, 25}
        /\ calculate_proximity(volunteers[i].location, c.location)
              < CRISIS_RESPONSE_RADIUS_KM

\* Two volunteers in different towns were registered and a crisis declared in
\* "metro city": one is at proximity 0 (names equal ignoring case), the other at
\* 25, and both were alerted
C29_Witness ==
    /\ last = "mobilize_emergency_response"
    /\ Len(volunteers) = 2
    /\ volunteers[1].location = "Metro City"
    /\ volunteers[2].location = "Suburb Town"
    /\ mobilized = 2
    /\ alerts[1].crisis_data.location = "metro city"
    /\ calculate_proximity(volunteers[1].location, "metro city") = 0
    /\ calculate_proximity(volunteers[2].location, "metro city") = 25

-----------------------------------------------------------------------------
(* agent.py on the event loop: register_volunteer and create_opportunity     *)
(* coroutines interleaved at their awaits.  Every await is taken as a point  *)
(* where another coroutine may run, which covers every schedule asyncio can  *)
(* produce.                                                                  *)

MaxTasks == 2

\* the record left out of the shared list
list_append_dropped(list, record) == list

\* self.volunteers.append(volunteer) / self.opportunities.append(opportunity)
list_append(list, record) == Append(list, record)

Task(op, record) == [op |-> op, pc |-> "matching", record |-> record, i |-> 0,
                     matches |-> <<>>]

InitAsync ==
    /\ system = "agent"
    /\ volunteers = <<>>
    /\ opportunities = <<>>
    /\ matches = <<>>
    /\ allocation = NoAllocation
    /\ last = "init"
    /\ IdleScore /\ IdleAllocate /\ IdleImpact /\ IdleRest

asyncFrame == <<system, candidates, scoreVars, impactVars, greedyVars, crisisVars>>

\* register_volunteer up to its first await (agent.py:94-98): the volunteer is
\* appended and find_matches is entered with the list self.opportunities itself
async_register_volunteer ==
    /\ Len(tasks) < MaxTasks
    /\ \E data \in VolunteerData :
        LET volunteer == [data EXCEPT !.id = Len(volunteers) + 1]
        IN /\ volunteers' = list_append(volunteers, volunteer)
           /\ tasks' = Append(tasks, Task("register_volunteer", volunteer))
    /\ UNCHANGED <<opportunities, matches, allocation, last, scoredPairs, asyncFrame>>

\* create_opportunity up to its first await (agent.py:108-112)
async_create_opportunity ==
    /\ Len(tasks) < MaxTasks
    /\ \E data \in OpportunityData :
        LET opportunity == [data EXCEPT !.id = Len(opportunities) + 1]
        IN /\ opportunities' = list_append(opportunities, opportunity)
           /\ tasks' = Append(tasks, Task("create_opportunity", opportunity))
    /\ UNCHANGED <<volunteers, matches, allocation, last, scoredPairs, asyncFrame>>

\* find_matches, one iteration of `for opportunity in opportunities`
\* (matching_agent.py:18-28): the list iterator reads the live list at its index
async_find_matches_step ==
    /\ \E t \in DOMAIN tasks :
        /\ tasks[t].op = "register_volunteer"
        /\ tasks[t].pc = "matching"
        /\ tasks[t].i < Len(opportunities)
        /\ LET volunteer == tasks[t].record
               opportunity == opportunities[tasks[t].i + 1]
               c == calculate_compatibility(volunteer, opportunity)
               found == IF RGe(c.score, MIN_MATCH_SCORE)
                        THEN Append(tasks[t].matches, MatchResult(volunteer, opportunity, c))
                        ELSE tasks[t].matches
           IN /\ tasks' = [tasks EXCEPT ![t].i = @ + 1, ![t].matches = found]
              /\ scoredPairs' = scoredPairs \cup
                    {[volunteer |-> volunteer.id, opportunity |-> opportunity.id,
                      by |-> "find_matches"]}
    /\ UNCHANGED <<volunteers, opportunities, matches, allocation, last, asyncFrame>>

\* find_volunteers, one iteration of `for volunteer in volunteers`
\* (matching_agent.py:37-47)
async_find_volunteers_step ==
    /\ \E t \in DOMAIN tasks :
        /\ tasks[t].op = "create_opportunity"
        /\ tasks[t].pc = "matching"
        /\ tasks[t].i < Len(volunteers)
        /\ LET opportunity == tasks[t].record
               volunteer == volunteers[tasks[t].i + 1]
               c == calculate_compatibility(volunteer, opportunity)
               found == IF RGe(c.score, RAdd(MIN_MATCH_SCORE, Rat(1, 10)))
                        THEN Append(tasks[t].matches, MatchResult(volunteer, opportunity, c))
                        ELSE tasks[t].matches
           IN /\ tasks' = [tasks EXCEPT ![t].i = @ + 1, ![t].matches = found]
              /\ scoredPairs' = scoredPairs \cup
                    {[volunteer |-> volunteer.id, opportunity |-> opportunity.id,
                      by |-> "find_volunteers"]}
    /\ UNCHANGED <<volunteers, opportunities, matches, allocation, last, asyncFrame>>

\* find_matches runs out of opportunities, sorts and returns (matching_agent.py:30-31);
\* register_volunteer goes on to await send_welcome (agent.py:101)
async_find_matches_return ==
    /\ \E t \in DOMAIN tasks :
        /\ tasks[t].op = "register_volunteer"
        /\ tasks[t].pc = "matching"
        /\ tasks[t].i >= Len(opportunities)
        /\ LET result == Slice(SortByScoreDesc(tasks[t].matches), MAX_RECOMMENDATIONS)
           IN /\ tasks' = [tasks EXCEPT ![t].pc = "send_welcome", ![t].matches = result]
              /\ matches' = result
    /\ last' = "find_matches"
    /\ UNCHANGED <<volunteers, opportunities, allocation, scoredPairs, asyncFrame>>

\* find_volunteers runs out of volunteers, sorts and returns (matching_agent.py:49-50);
\* create_opportunity goes on to await allocate_resources (agent.py:115)
async_find_volunteers_return ==
    /\ \E t \in DOMAIN tasks :
        /\ tasks[t].op = "create_opportunity"
        /\ tasks[t].pc = "matching"
        /\ tasks[t].i >= Len(volunteers)
        /\ LET result == Slice(SortByScoreDesc(tasks[t].matches),
                               tasks[t].record.volunteers_needed)
           IN /\ tasks' = [tasks EXCEPT ![t].pc = "allocate_resources",
                                        ![t].matches = result]
              /\ matches' = result
    /\ last' = "find_volunteers"
    /\ UNCHANGED <<volunteers, opportunities, allocation, scoredPairs, asyncFrame>>

\* send_welcome is done; register_volunteer returns the volunteer (agent.py:101-104)
async_register_volunteer_return ==
    /\ \E t \in DOMAIN tasks :
        /\ tasks[t].pc = "send_welcome"
        /\ tasks' = [tasks EXCEPT ![t].pc = "done"]
    /\ last' = "register_volunteer"
    /\ UNCHANGED <<volunteers, opportunities, matches, allocation, scoredPairs, asyncFrame>>

\* the allocation is computed; create_opportunity returns the opportunity
\* (agent.py:115-118)
async_create_opportunity_return ==
    /\ \E t \in DOMAIN tasks :
        /\ tasks[t].pc = "allocate_resources"
        /\ tasks' = [tasks EXCEPT ![t].pc = "done"]
        /\ allocation' = allocate_resources(tasks[t].record, tasks[t].matches)
    /\ last' = "create_opportunity"
    /\ UNCHANGED <<volunteers, opportunities, matches, scoredPairs, asyncFrame>>

NextAsync ==
    \/ async_register_volunteer
    \/ async_create_opportunity
    \/ async_find_matches_step
    \/ async_find_volunteers_step
    \/ async_find_matches_return
    \/ async_find_volunteers_return
    \/ async_register_volunteer_return
    \/ async_create_opportunity_return

SpecAsync == InitAsync /\ [][NextAsync]_vars

AllTasksDone == \A t \in DOMAIN tasks : tasks[t].pc = "done"

Calls(op) == Cardinality({t \in DOMAIN tasks : tasks[t].op = op})

PairScored(v, o) ==
    \E p \in scoredPairs : p.volunteer = v.id /\ p.opportunity = o.id

\* once every call has returned, each pair of the collections was scored, and
\* each call has left exactly one record
AllPairsScored ==
    /\ AllTasksDone =>
        \A i \in DOMAIN volunteers : \A j \in DOMAIN opportunities :
            PairScored(volunteers[i], opportunities[j])
    /\ Len(volunteers) = Calls("register_volunteer")
    /\ Len(opportunities) = Calls("create_opportunity")

\* a step keeps what the lists hold and adds one record exactly when a call starts
ListsGrowByOne ==
    /\ Len(volunteers') >= Len(volunteers)
    /\ SubSeq(volunteers', 1, Len(volunteers)) = volunteers
    /\ Len(opportunities') >= Len(opportunities)
    /\ SubSeq(opportunities', 1, Len(opportunities)) = opportunities
    /\ (Len(volunteers') + Len(opportunities')) - (Len(volunteers) + Len(opportunities))
          = Len(tasks') - Len(tasks)

\* C30: for any interleaving at await points of register_volunteer and
\* create_opportunity calls on one orchestrator, every (volunteer, opportunity)
\* pair in the final collections was scored at least once, by the find_matches
\* of the registration or the find_volunteers of the creation; and the two lists
\* only ever grow, by exactly one record per call.
C30_InterleavedCallsScoreEveryPair ==
    [](AllPairsScored) /\ [][ListsGrowByOne]_vars

\* A registration and a creation ran interleaved and both have returned: the
\* pair was scored by the find_matches of the one and the find_volunteers of
\* the other
C30_Witness ==
    /\ Len(tasks) = 2
    /\ AllTasksDone
    /\ Len(volunteers) = 1
    /\ Len(opportunities) = 1
    /\ [volunteer |-> 1, opportunity |-> 1, by |-> "find_matches"] \in scoredPairs
    /\ [volunteer |-> 1, opportunity |-> 1, by |-> "find_volunteers"] \in scoredPairs

====
